---- MODULE Spec2Model ----
(***************************************************************************)
(* A model of the car-interface and planning helpers of dpilot:            *)
(*   selfdrive/car/interfaces.py           get_torque_params, FluxModel,   *)
(*                                         CarStateBase                    *)
(*   selfdrive/controls/lib/drive_helpers.py  update_v_cruise,             *)
(*                                         get_lag_adjusted_curvature      *)
(*   selfdrive/car/hyundai/radar_interface.py RadarInterface               *)
(*   selfdrive/controls/lib/longitudinal_planner.py limit_accel_in_turns,  *)
(*                                         Planner                         *)
(*   selfdrive/car/hyundai/interface.py    CarInterface._get_params and    *)
(*                                         update, with the base class's   *)
(*                                         create_common_events            *)
(*                                                                         *)
(* Each subsystem has its own variables, its own initial condition and its *)
(* own specification (SpecTorque, SpecFlux, ...). Under the specification  *)
(* of one subsystem the variables of the others stay at their idle value.  *)
(*                                                                         *)
(* Numbers that are floats in the source are fixed-point integers here;    *)
(* the unit is stated with each subsystem.                                 *)
(***************************************************************************)
EXTENDS Integers, Sequences, FiniteSets, TLC

VARIABLES
  \* get_torque_params: the three yaml tables, the call's argument and outcome
  sub, params, override, legend, candidate, tp_result,
  \* FluxModel: the network's declared sizes and the last evaluate() call
  input_size, fx_input, fx_padded, fx_result,
  \* update_v_cruise: the module global set_speed_offset, the caller's set
  \* speed, the call's arguments and outcome
  set_speed_offset, v_cruise_kph, vc_args, vc_result,
  \* CarStateBase: the two velocity filters' states [x0, x1], the calls made
  \* and the last call
  v_ego_kf, v_ego_clu_kf, kf_calls, kf_last,
  \* CarStateBase: the blinker counters and previous stalk positions, the
  \* car's blinkerTime, and the inputs and outputs of the cycles so far
  left_blinker_cnt, right_blinker_cnt, left_blinker_prev, right_blinker_prev,
  blinker_time, bl_trace,
  \* RadarInterface: its fields, the last update() call, and the track ids
  \* given out so far, oldest first
  new_radar, pts, track_id, prev_dist, updated_messages, rd_last, assigned,
  \* limit_accel_in_turns: the last call's arguments and result
  la_args, la_result,
  \* CarInterface._get_params: the last call's arguments and the CarParams
  \* fields it derived
  gp_args, gp_ret,
  \* The Hyundai CarInterface: the persisted mad-mode flag read at
  \* construction, CP.minSteerSpeed and CP.pcmCruise, the button, main-button
  \* and gap readings CarState holds from the last cycle, the interface's own
  \* fields, the controller's turning_indicator_alert, the CarState returned
  \* by the last cycle (CS.out), the last gap reading in 1..4, whether the
  \* silent steering event was raised in the current episode of the temporary
  \* fault, and the last update() cycle
  mad_mode_enabled, minSteerSpeed, pcmCruise,
  cruise_buttons, cruise_main_button, cruise_gap, cruise_gapPrev,
  steering_unpressed, low_speed_alert, silent_steer_warning, no_steer_warning,
  turning_indicator_alert, CS_out, gap_seen, silent_raised, hy_last,
  \* get_lag_adjusted_curvature: the last call's arguments and outcome
  lc_args, lc_result,
  \* Planner: the persisted parameter store it reads, the CarParams flag and
  \* the cluster-speed flag it was constructed with, its fields, the solver's
  \* and the turn controller's fields it reads back, what the solver was last
  \* handed, the last update() call and the last published plan; and, as
  \* history, the number of updates since the store last changed (up to the
  \* read period), whether every update so far had read set, and the store as
  \* it was at the last update with read set whose index is a multiple of the
  \* read period
  plan_store, CP_openpilotLongitudinalControl, use_cluster_speed,
  param_read_counter, mpc_mode, dynamic_personality, personality, a_desired,
  cruise_source, fcw, mpc_source, vtc_is_active, vtc_v_target, mpc_handed,
  pl_last, published, store_age, reads_on, due_store

torqueVars == <<sub, params, override, legend, candidate, tp_result>>
fluxVars == <<input_size, fx_input, fx_padded, fx_result>>
cruiseVars == <<set_speed_offset, v_cruise_kph, vc_args, vc_result>>
kfVars == <<v_ego_kf, v_ego_clu_kf, kf_calls, kf_last>>
blinkerVars ==
  <<left_blinker_cnt, right_blinker_cnt, left_blinker_prev,
    right_blinker_prev, blinker_time, bl_trace>>
radarVars ==
  <<new_radar, pts, track_id, prev_dist, updated_messages, rd_last, assigned>>

turnVars == <<la_args, la_result>>
paramsVars == <<gp_args, gp_ret>>
curvVars == <<lc_args, lc_result>>
planVars ==
  <<plan_store, CP_openpilotLongitudinalControl, use_cluster_speed,
    param_read_counter, mpc_mode, dynamic_personality, personality, a_desired,
    cruise_source, fcw, mpc_source, vtc_is_active, vtc_v_target, mpc_handed,
    pl_last, published, store_age, reads_on, due_store>>
hyVars ==
  <<mad_mode_enabled, minSteerSpeed, pcmCruise, cruise_buttons,
    cruise_main_button, cruise_gap, cruise_gapPrev, steering_unpressed,
    low_speed_alert, silent_steer_warning, no_steer_warning,
    turning_indicator_alert, CS_out, gap_seen, silent_raised, hy_last>>

----------------------------------------------------------------------------
(* Generic helpers *)

Abs(x) == IF x < 0 THEN -x ELSE x

\* common.numpy_fast.clip(x, lo, hi) = max(lo, min(hi, x))
Clip(x, lo, hi) == IF x < lo THEN lo ELSE IF x > hi THEN hi ELSE x

Max(a, b) == IF a >= b THEN a ELSE b

Min(a, b) == IF a <= b THEN a ELSE b

\* The partial functions from D into R: python dicts with keys in D.
Dicts(D, R) == UNION {[K -> R] : K \in SUBSET D}

\* The sequences over S of length at most n.
SeqsUpTo(S, n) == UNION {[1..k -> S] : k \in 0..n}

\* No value: the call raised, or has not been made.
NoValue == <<>>

----------------------------------------------------------------------------
(* get_torque_params  (interfaces.py:48-69)                                *)
(* The yaml files are not part of the sources; the tables are inputs.      *)

\* Car fingerprints used as keys of the tables.
Cars == {"carA", "carB"}

\* Rows of the tables: one value per legend entry.
Rows == {<<11, 12, 13>>, <<21, 22, 23>>}

\* params['legend']: the names of a row's columns, in the file's order.
Legends == { <<"LAT_ACCEL_FACTOR", "MAX_LAT_ACCEL_MEASURED", "FRICTION">>,
             <<"FRICTION", "LAT_ACCEL_FACTOR", "MAX_LAT_ACCEL_MEASURED">> }

\* A variant that gives every field the row's first value.
RowDictFirst(lg, out) ==
  [key \in {lg[i] : i \in 1..Len(lg)} |-> out[1]]

\* {key: out[i] for i, key in enumerate(params['legend'])}
RowDict(lg, out) ==
  [key \in {lg[i] : i \in 1..Len(lg)} |->
     out[CHOOSE i \in 1..Len(lg) : lg[i] = key]]

\* if candidate in sub: candidate = sub[candidate]
Resolve(s, c) == IF c \in DOMAIN s THEN s[c] ELSE c

\* A variant that does not count the substitution table.
OverlapNoSub(s, p, o, c) ==
  (IF c \in DOMAIN p THEN 1 ELSE 0) + (IF c \in DOMAIN o THEN 1 ELSE 0)

\* sum([candidate in x for x in [sub, params, override]])
Overlap(s, p, o, c) ==
  (IF c \in DOMAIN s THEN 1 ELSE 0) + (IF c \in DOMAIN p THEN 1 ELSE 0)
    + (IF c \in DOMAIN o THEN 1 ELSE 0)

\* if candidate in override ... elif candidate in params ... else raise
Lookup(p, o, c) ==
  IF c \in DOMAIN o THEN [found |-> TRUE, out |-> o[c]]
  ELSE IF c \in DOMAIN p THEN [found |-> TRUE, out |-> p[c]]
  ELSE [found |-> FALSE, out |-> NoValue]

\* A variant without the overlap check.
GetTorqueParamsNoCheck(s, p, o, lg, c0) ==
  LET c == Resolve(s, c0)
      l == Lookup(p, o, c)
  IN  IF l.found THEN [kind |-> "ok", out |-> RowDict(lg, l.out)]
      ELSE [kind |-> "NotImplementedError", out |-> NoValue]

\* The whole function: its outcome for the tables s, p, o and legend lg.
GetTorqueParams(s, p, o, lg, c0) ==
  LET c == Resolve(s, c0)
      l == Lookup(p, o, c)
  IN  IF Overlap(s, p, o, c) > 1
        THEN [kind |-> "RuntimeError", out |-> NoValue]
      ELSE IF l.found THEN [kind |-> "ok", out |-> RowDict(lg, l.out)]
      ELSE [kind |-> "NotImplementedError", out |-> NoValue]

TorqueIdle ==
  /\ sub = <<>> /\ params = <<>> /\ override = <<>>
  /\ legend = <<"FRICTION", "LAT_ACCEL_FACTOR", "MAX_LAT_ACCEL_MEASURED">>
  /\ candidate = "none"
  /\ tp_result = [kind |-> "none", out |-> NoValue]

TorqueInit ==
  /\ sub \in Dicts(Cars, Cars)
  /\ params \in Dicts(Cars, Rows)
  /\ override \in Dicts(Cars, Rows)
  /\ legend \in Legends
  /\ candidate = "none"
  /\ tp_result = [kind |-> "none", out |-> NoValue]

\* One call get_torque_params(c).
CallGetTorqueParams ==
  \E c \in Cars :
    /\ candidate' = c
    /\ tp_result' = GetTorqueParams(sub, params, override, legend, c)
    /\ UNCHANGED <<sub, params, override, legend>>

----------------------------------------------------------------------------
(* FluxModel.evaluate  (interfaces.py:113-130)                             *)
(* Inputs are small integers; the normalisation and the forward pass are   *)
(* float32 arithmetic on the padded array and are not modelled further:    *)
(* fx_padded is the array handed to them.                                  *)

\* Largest declared input size and longest input array tried.
MaxInputSize == 5
MaxInputLen == 6

InputVals == {1, 2}

Zeros(n) == [i \in 1..n |-> 0]

\* input_array + [0] * (self.input_size - in_len); [0] * k is [] for k <= 0
Pad(arr, n) == arr \o Zeros(Max(n - Len(arr), 0))

\* A variant that accepts a one-long input.
EvaluateFrom1(n, arr) ==
  IF Len(arr) # n /\ ~(1 <= Len(arr))
    THEN [kind |-> "ValueError", padded |-> NoValue]
  ELSE LET x == IF Len(arr) # n THEN Pad(arr, n) ELSE arr
       IN  IF Len(x) # n THEN [kind |-> "ShapeError", padded |-> NoValue]
           ELSE [kind |-> "ok", padded |-> x]

\* evaluate up to the array that is normalised. An array longer than the
\* declared size is left as it is, and (x - input_mean) then fails on the
\* shapes.
Evaluate(n, arr) ==
  IF Len(arr) # n /\ ~(2 <= Len(arr))
    THEN [kind |-> "ValueError", padded |-> NoValue]
  ELSE LET x == IF Len(arr) # n THEN Pad(arr, n) ELSE arr
       IN  IF Len(x) # n THEN [kind |-> "ShapeError", padded |-> NoValue]
           ELSE [kind |-> "ok", padded |-> x]

FluxIdle ==
  /\ input_size = 3
  /\ fx_input = <<>> /\ fx_padded = NoValue /\ fx_result = "none"

\* The constructor's probe evaluate([10.0, 0.0, 0.2]) needs input_size >= 3.
FluxInit ==
  /\ input_size \in 3..MaxInputSize
  /\ fx_input = <<>> /\ fx_padded = NoValue /\ fx_result = "none"

CallEvaluate ==
  \E arr \in SeqsUpTo(InputVals, MaxInputLen) :
    LET r == Evaluate(input_size, arr)
    IN  /\ fx_input' = arr
        /\ fx_padded' = r.padded
        /\ fx_result' = r.kind
        /\ UNCHANGED input_size

----------------------------------------------------------------------------
(* update_v_cruise  (drive_helpers.py:56-94)                               *)
(* Speeds are in hundredths of a kph: 71.3 kph is 7130.                    *)

V_CRUISE_MAX == 180
V_CRUISE_MIN == 8
CRUISE_LONG_PRESS == 50

Kph(x) == 100 * x

\* Events in one call's list.
MaxEvents == 2

\* ButtonEvent types; the keys of button_timers are the tracked ones.
TrackedButtons == {"accelCruise", "decelCruise"}
ButtonEvents ==
  { [type |-> "accelCruise", pressed |-> FALSE],
    [type |-> "decelCruise", pressed |-> FALSE],
    [type |-> "accelCruise", pressed |-> TRUE],
    [type |-> "gapAdjustCruise", pressed |-> FALSE] }

\* Hold timers tried, in control cycles.
TimerVals == {0, 10, 50, 51, 100}

\* button_timers: a dict, here the sequence of its items in iteration order.
ButtonTimers ==
  { <<[key |-> a, val |-> x], [key |-> b, val |-> y]>> :
      <<a, b, x, y>> \in { q \in TrackedButtons \X TrackedButtons
                                   \X TimerVals \X TimerVals : q[1] # q[2] } }

TimerKeys(bt) == {bt[i].key : i \in 1..Len(bt)}
TimerOf(bt, k) == bt[CHOOSE i \in 1..Len(bt) : bt[i].key = k].val

\* A variant with the two signs exchanged.
IntervalSignFlipped(b) == IF b = "accelCruise" THEN -1 ELSE 1

\* CRUISE_INTERVAL_SIGN
IntervalSign(b) == IF b = "accelCruise" THEN 1 ELSE -1

\* CRUISE_NEAREST_FUNC[b](v / delta): math.ceil for accel, math.floor for decel
Nearest(b, v, delta) ==
  IF b = "accelCruise" THEN (v + delta - 1) \div delta ELSE v \div delta

\* round(v, 1): to the nearest tenth of a kph
Round1(v) == ((v + 5) \div 10) * 10

\* v_cruise_delta = 1. if metric else 1.6
BaseDelta(metric) == IF metric THEN 100 ELSE 160

\* The index of the first event that is a release of a tracked button, 0 if
\* there is none (the for loop's break).
FirstRelease(events, bt) ==
  LET hits == {i \in 1..Len(events) :
                 events[i].type \in TimerKeys(bt) /\ ~events[i].pressed}
  IN  IF hits = {} THEN 0 ELSE CHOOSE i \in hits : \A j \in hits : i <= j

\* A variant that also takes a timer of 0 for a multiple.
FirstLongPressZero(bt) ==
  LET hits == {i \in 1..Len(bt) : bt[i].val % CRUISE_LONG_PRESS = 0}
  IN  IF hits = {} THEN 0 ELSE CHOOSE i \in hits : \A j \in hits : i <= j

\* The index in bt of the first timer that is a positive multiple of
\* CRUISE_LONG_PRESS, 0 if there is none (the for-else's loop).
FirstLongPress(bt) ==
  LET hits == {i \in 1..Len(bt) :
                 bt[i].val # 0 /\ bt[i].val % CRUISE_LONG_PRESS = 0}
  IN  IF hits = {} THEN 0 ELSE CHOOSE i \in hits : \A j \in hits : i <= j

\* The body of `if button_type:` (lines 81-92). The name set_speed_offset is
\* read only on a long press; unbound, the read raises NameError.
ButtonStep(v, b, long_press, metric, offset) ==
  LET delta == BaseDelta(metric) * (IF long_press THEN 5 ELSE 1)
      v1 == IF long_press /\ v % delta # 0
              THEN Nearest(b, v, delta) * delta
              ELSE v + delta * IntervalSign(b)
      v2 == Clip(Round1(v1), Kph(V_CRUISE_MIN), Kph(V_CRUISE_MAX))
  IN  IF long_press /\ ~offset.bound
        THEN [kind |-> "NameError", v |-> v]
      ELSE LET o1 == IF long_press THEN offset.val * IntervalSign(b) ELSE 0
               o2 == IF o1 < 0 THEN offset.val - delta ELSE o1
           IN  [kind |-> "ok", v |-> v2 + o2]

\* The whole function: [kind, v]; v is the returned set speed, or the
\* caller's unchanged one when the call raised.
UpdateVCruise(v, events, bt, enabled, metric, offset) ==
  IF ~enabled THEN [kind |-> "ok", v |-> v]
  ELSE
    LET r == FirstRelease(events, bt)
        l == FirstLongPress(bt)
    IN  IF r # 0
          THEN IF TimerOf(bt, events[r].type) > CRUISE_LONG_PRESS
                 THEN [kind |-> "ok", v |-> v]
                 ELSE ButtonStep(v, events[r].type, FALSE, metric, offset)
        ELSE IF l # 0
          THEN ButtonStep(v, bt[l].key, TRUE, metric, offset)
        ELSE [kind |-> "ok", v |-> v]

\* set_speed_offset is no name of drive_helpers.py: it is unbound unless the
\* embedding process binds it in the module (the "external tunable").
Offsets ==
  { [bound |-> FALSE, val |-> 0], [bound |-> TRUE, val |-> 0],
    [bound |-> TRUE, val |-> 200] }

NoArgs ==
  [events |-> <<>>, timers |-> <<>>, enabled |-> FALSE, metric |-> TRUE, v |-> 0]

CruiseIdle ==
  /\ set_speed_offset = [bound |-> FALSE, val |-> 0]
  /\ v_cruise_kph = Kph(30)
  /\ vc_args = NoArgs
  /\ vc_result = [kind |-> "none", v |-> Kph(30)]

\* The set speed is where initialize_v_cruise or an earlier call left it: a
\* multiple of 0.1 kph in [V_CRUISE_MIN, V_CRUISE_MAX].
CruiseSpeeds ==
  {Kph(8), 810, Kph(9), Kph(70), 7130, Kph(72), Kph(75), Kph(80),
   17990, Kph(180)}

CruiseInit ==
  /\ set_speed_offset \in Offsets
  /\ v_cruise_kph \in CruiseSpeeds
  /\ vc_args = NoArgs
  /\ vc_result = [kind |-> "none", v |-> v_cruise_kph]

\* The call v_cruise_kph = update_v_cruise(v_cruise_kph, ...) of one control
\* cycle, from every set speed of CruiseSpeeds.
CallUpdateVCruise ==
  /\ vc_result.kind = "none"
  /\ \E events \in SeqsUpTo(ButtonEvents, MaxEvents), bt \in ButtonTimers,
        enabled \in BOOLEAN, metric \in BOOLEAN :
       LET r == UpdateVCruise(v_cruise_kph, events, bt, enabled, metric,
                              set_speed_offset)
       IN  /\ vc_args' = [events |-> events, timers |-> bt,
                          enabled |-> enabled, metric |-> metric,
                          v |-> v_cruise_kph]
           /\ vc_result' = r
           /\ v_cruise_kph' = r.v
           /\ UNCHANGED set_speed_offset

----------------------------------------------------------------------------
(* CarStateBase.update_speed_kf / update_clu_speed_kf                      *)
(* (interfaces.py:458-497). Speeds are in mm/s, rates in mm/s^2.           *)

\* Calls made in one behaviour.
MaxKfCalls == 3

\* Raw measurements tried: 0, 1, 10, 12, 12.001 and 13.5 m/s.
RawSpeeds == {0, 1000, 10000, 12000, 12001, 13500}

\* A variant that also resets at a difference of exactly 2.0.
ResetNeededGe(v_ego_raw, x0) == Abs(v_ego_raw - x0) >= 2000

\* abs(v_ego_raw - kf.x[0][0]) > 2.0
ResetNeeded(v_ego_raw, x0) == Abs(v_ego_raw - x0) > 2000

\* The state handed to KF1D.update: set_x([[v_ego_raw], [0.0]]) on a reset.
KfReset(x, v_ego_raw) ==
  IF ResetNeeded(v_ego_raw, x.x0) THEN [x0 |-> v_ego_raw, x1 |-> 0] ELSE x

\* KF1D.update(meas) of common.simple_kalman, with A = [[1, dt], [0, 1]],
\* C = [1, 0], dt = 0.01 and the steady-state gain K ~ [0.123, 0.297]:
\* x <- (A - K C) x + K meas, in fixed point.
KfUpdate(x, meas) ==
  [x0 |-> x.x0 + (x.x1 \div 100) + ((123 * (meas - x.x0)) \div 1000),
   x1 |-> x.x1 + ((297 * (meas - x.x0)) \div 1000)]

NoKfCall ==
  [chan |-> "none", raw |-> 0, before |-> [x0 |-> 0, x1 |-> 0],
   other |-> [x0 |-> 0, x1 |-> 0], pre |-> [x0 |-> 0, x1 |-> 0]]

\* x0 = [[0.0], [0.0]] for both filters.
KfInit ==
  /\ v_ego_kf = [x0 |-> 0, x1 |-> 0]
  /\ v_ego_clu_kf = [x0 |-> 0, x1 |-> 0]
  /\ kf_calls = 0 /\ kf_last = NoKfCall

CallUpdateSpeedKf ==
  /\ kf_calls < MaxKfCalls
  /\ \E v_ego_raw \in RawSpeeds :
       LET pre == KfReset(v_ego_kf, v_ego_raw)
       IN  /\ v_ego_kf' = KfUpdate(pre, v_ego_raw)
           /\ kf_last' = [chan |-> "v_ego", raw |-> v_ego_raw,
                          before |-> v_ego_kf, other |-> v_ego_clu_kf,
                          pre |-> pre]
  /\ kf_calls' = kf_calls + 1
  /\ UNCHANGED v_ego_clu_kf

CallUpdateCluSpeedKf ==
  /\ kf_calls < MaxKfCalls
  /\ \E v_ego_raw \in RawSpeeds :
       LET pre == KfReset(v_ego_clu_kf, v_ego_raw)
       IN  /\ v_ego_clu_kf' = KfUpdate(pre, v_ego_raw)
           /\ kf_last' = [chan |-> "v_ego_clu", raw |-> v_ego_raw,
                          before |-> v_ego_clu_kf, other |-> v_ego_kf,
                          pre |-> pre]
  /\ kf_calls' = kf_calls + 1
  /\ UNCHANGED v_ego_kf

----------------------------------------------------------------------------
(* CarStateBase.update_blinker_from_stalk  (interfaces.py:517-538)         *)

\* Update cycles in one behaviour, and the largest blinkerTime tried.
MaxBlinkCycles == 6
MaxBlinkerTime == 5

\* Lines 522-525 then 527-528: the left counter is armed by a rising edge of
\* the left stalk, then zeroed when the right stalk is engaged.
LeftArm(cnt, stalk, prev, opposite, bt) ==
  IF opposite THEN 0 ELSE IF stalk /\ ~prev THEN bt ELSE cnt

\* A variant in which the left stalk does not zero the right counter.
RightArmNoForce(cnt, stalk, prev, opposite, bt) ==
  IF stalk /\ ~prev THEN bt ELSE cnt

\* Line 523 then lines 527-530: the right counter is zeroed when the left stalk is
\* engaged, then armed by a rising edge of the right stalk.
RightArm(cnt, stalk, prev, opposite, bt) ==
  IF stalk /\ ~prev THEN bt ELSE IF opposite THEN 0 ELSE cnt

\* max(cnt - 1, 0)
CountDown(cnt) == Max(cnt - 1, 0)

BlinkerInit ==
  /\ left_blinker_cnt = 0 /\ right_blinker_cnt = 0
  /\ left_blinker_prev = FALSE /\ right_blinker_prev = FALSE
  /\ blinker_time \in 1..MaxBlinkerTime
  /\ bl_trace = <<>>

BlinkerIdle ==
  /\ left_blinker_cnt = 0 /\ right_blinker_cnt = 0
  /\ left_blinker_prev = FALSE /\ right_blinker_prev = FALSE
  /\ blinker_time = 1
  /\ bl_trace = <<>>

\* One cycle's update_blinker_from_stalk(blinker_time, l, r).
CallUpdateBlinkerFromStalk ==
  /\ Len(bl_trace) < MaxBlinkCycles
  /\ \E l \in BOOLEAN, r \in BOOLEAN :
       LET lc == CountDown(LeftArm(left_blinker_cnt, l, left_blinker_prev,
                                   r, blinker_time))
           rc == CountDown(RightArm(right_blinker_cnt, r, right_blinker_prev,
                                    l, blinker_time))
       IN  /\ left_blinker_cnt' = lc
           /\ right_blinker_cnt' = rc
           /\ left_blinker_prev' = l
           /\ right_blinker_prev' = r
           /\ bl_trace' = Append(bl_trace,
                [left_stalk |-> l, right_stalk |-> r,
                 left |-> (l \/ lc > 0), right |-> (r \/ rc > 0)])
  /\ UNCHANGED blinker_time

\* A variant that holds the counter one cycle longer.
LampCountPlusOne(cnt, lamp, bt) == IF lamp THEN bt + 1 ELSE CountDown(cnt)

\* blinker_time if lamp else max(cnt - 1, 0)  (lines 513 and 514)
LampCount(cnt, lamp, bt) == IF lamp THEN bt ELSE CountDown(cnt)

\* One cycle's update_blinker_from_lamp(blinker_time, l, r)
\* (interfaces.py:509-515).
CallUpdateBlinkerFromLamp ==
  /\ Len(bl_trace) < MaxBlinkCycles
  /\ \E l \in BOOLEAN, r \in BOOLEAN :
       LET lc == LampCount(left_blinker_cnt, l, blinker_time)
           rc == LampCount(right_blinker_cnt, r, blinker_time)
       IN  /\ left_blinker_cnt' = lc
           /\ right_blinker_cnt' = rc
           /\ bl_trace' = Append(bl_trace,
                [left_lamp |-> l, right_lamp |-> r,
                 left |-> lc > 0, right |-> rc > 0])
  /\ UNCHANGED <<left_blinker_prev, right_blinker_prev, blinker_time>>

----------------------------------------------------------------------------
(* RadarInterface  (radar_interface.py:49-144)                             *)
(* Distances are in decimetres. self.new_radar selects the mode: line 52   *)
(* sets it to False (single-object mode); the multi-track branch of        *)
(* _update is kept in the source and is modelled for new_radar = TRUE.     *)

RADAR_START_ADDR == 1280

\* The multi-track message slots that are modelled; RADAR_MSG_COUNT is 32 in
\* the source.
MaxSlots == 2

SlotAddrs == RADAR_START_ADDR..(RADAR_START_ADDR + MaxSlots - 1)

\* self.trigger_msg = 0x420 if not self.new_radar
\*                    else RADAR_START_ADDR + RADAR_MSG_COUNT - 1
trigger_msg == IF new_radar THEN RADAR_START_ADDR + MaxSlots - 1 ELSE 1056

\* The addresses rcp.update_strings can report: the messages of the parser
\* built by get_radar_can_parser.
ParserAddrs == IF new_radar THEN SlotAddrs ELSE {1056}

\* Track ids handed out in one behaviour.
MaxTrackId == 4

\* ACC_ObjDist readings tried: 10, 50, 51, 52.6 and 55 m.
DistVals == {100, 500, 510, 526, 550}

\* (ACC_ObjLatPos, ACC_ObjRelSpd) readings tried.
LatSpdVals == {<<-1, 0>>, <<1, -2>>}

\* RADAR_TRACK_xxx readings tried: no object, and objects straight ahead at
\* 30 m and 60 degrees off at 50 m.
TrackMsgs ==
  { [STATE |-> 0, AZIMUTH |-> 0, LONG_DIST |-> 0, REL_SPEED |-> 0,
     REL_ACCEL |-> 0],
    [STATE |-> 3, AZIMUTH |-> 0, LONG_DIST |-> 300, REL_SPEED |-> -2,
     REL_ACCEL |-> 0],
    [STATE |-> 4, AZIMUTH |-> 60, LONG_DIST |-> 500, REL_SPEED |-> 1,
     REL_ACCEL |-> 1] }

\* 1000 * math.cos(math.radians(az)) and 1000 * math.sin(math.radians(az))
\* for the azimuths of TrackMsgs.
Cos1000(az) == IF az = 0 THEN 1000 ELSE 500
Sin1000(az) == IF az = 0 THEN 0 ELSE 866

\* A variant that triggers on any message.
TriggeredByAny(um, vls) == um \cup vls # {}

\* not (self.trigger_msg not in self.updated_messages), after
\* self.updated_messages.update(vls)
Triggered(um, vls) == trigger_msg \in um \cup vls

\* A variant that hands out the same id again.
SameTrackId(tid) == tid

\* self.track_id += 1
NextTrackId(tid) == tid + 1

\* self.track_id after n tracks were created.
RECURSIVE AfterTracks(_, _)
AfterTracks(tid, n) ==
  IF n = 0 THEN tid ELSE AfterTracks(NextTrackId(tid), n - 1)

\* The ids given to n tracks created one after the other, oldest first.
RECURSIVE TrackIds(_, _)
TrackIds(tid, n) ==
  IF n = 0 THEN <<>> ELSE <<tid>> \o TrackIds(NextTrackId(tid), n - 1)

\* A variant that takes the tolerance from the previous distance.
JumpedFromPrev(dist, prev) == 20 * Abs(dist - prev) > Clip(prev, 200, 1000)

\* abs(dist - self.prev_dist) > clip(dist/20., 1., 5.), both sides times 20
Jumped(dist, prev) == 20 * Abs(dist - prev) > Clip(dist, 200, 1000)

\* RadarPoint.new_message() with its trackId set.
NewPoint(tid) ==
  [trackId |-> tid, dRel |-> 0, yRel |-> 0, vRel |-> 0, aRel |-> "unset",
   yvRel |-> "unset", measured |-> FALSE]

\* self.pts after the valid branch (lines 122-139) for the reading
\* (dist, lat, spd); self.pts is a dict keyed by target id, 0 the only key.
ValidPts(p, tid, prev, dist, lat, spd) ==
  LET cleared == IF Jumped(dist, prev) THEN <<>> ELSE p
      created == IF cleared = <<>> THEN <<NewPoint(tid)>> ELSE cleared
  IN  <<[created[1] EXCEPT !.dRel = dist, !.yRel = -lat, !.vRel = spd,
                           !.aRel = "nan", !.yvRel = "nan",
                           !.measured = TRUE]>>

\* Whether the valid branch allocates a track id.
Allocates(p, prev, dist) == Jumped(dist, prev) \/ p = <<>>

NoRadarCall ==
  [ret |-> "none", vls |-> {}, valid |-> FALSE, dist |-> 0, lat |-> 0,
   spd |-> 0, can_valid |-> TRUE, points |-> <<>>, errors |-> <<>>,
   pts_before |-> <<>>, prev_dist_before |-> 0, track_id_before |-> 0,
   updated_before |-> {}, tracks |-> <<>>]

\* The state after __init__, radar on CAN with a decoder.
RadarInit ==
  /\ new_radar = FALSE
  /\ pts = <<>> /\ track_id = 0 /\ prev_dist = 0
  /\ updated_messages = {} /\ rd_last = NoRadarCall
  /\ assigned = <<>>

\* The same with the multi-track mode selected.
RadarTracksInit ==
  /\ new_radar = TRUE
  /\ pts = <<>> /\ track_id = 0 /\ prev_dist = 0
  /\ updated_messages = {} /\ rd_last = NoRadarCall
  /\ assigned = <<>>

\* update(can_strings) when the trigger message is not among the
\* accumulated ones: returns None.
UpdateNoTrigger ==
  \E vls \in SUBSET ParserAddrs :
    /\ ~Triggered(updated_messages, vls)
    /\ updated_messages' = updated_messages \cup vls
    /\ rd_last' = [NoRadarCall EXCEPT !.ret = "None", !.vls = vls,
                     !.pts_before = pts, !.prev_dist_before = prev_dist,
                     !.track_id_before = track_id,
                     !.updated_before = updated_messages]
    /\ UNCHANGED <<new_radar, pts, track_id, prev_dist, assigned>>

\* update(can_strings) with the trigger message seen and a valid object in
\* SCC11: _update's valid branch, then the accumulated set is cleared.
UpdateValid ==
  \E vls \in SUBSET ParserAddrs, dist \in DistVals, ls \in LatSpdVals,
     can_valid \in BOOLEAN :
    /\ ~new_radar
    /\ Triggered(updated_messages, vls)
    /\ Allocates(pts, prev_dist, dist) => track_id < MaxTrackId
    /\ pts' = ValidPts(pts, track_id, prev_dist, dist, ls[1], ls[2])
    /\ track_id' = IF Allocates(pts, prev_dist, dist)
                     THEN NextTrackId(track_id) ELSE track_id
    /\ assigned' = IF Allocates(pts, prev_dist, dist)
                     THEN Append(assigned, pts'[1].trackId) ELSE assigned
    /\ prev_dist' = dist
    /\ updated_messages' = {}
    /\ rd_last' = [ret |-> "RadarData", vls |-> vls, valid |-> TRUE,
                   dist |-> dist, lat |-> ls[1], spd |-> ls[2],
                   can_valid |-> can_valid, points |-> pts',
                   errors |-> IF can_valid THEN <<>> ELSE <<"canError">>,
                   pts_before |-> pts, prev_dist_before |-> prev_dist,
                   track_id_before |-> track_id,
                   updated_before |-> updated_messages, tracks |-> <<>>]
    /\ UNCHANGED new_radar

\* self.pts[addr] after lines 103-109 for the valid reading m.
TrackPoint(pt, m) ==
  [pt EXCEPT !.measured = TRUE,
             !.dRel = (Cos1000(m.AZIMUTH) * m.LONG_DIST) \div 1000,
             !.yRel = -((Sin1000(m.AZIMUTH) * m.LONG_DIST) \div 2000),
             !.vRel = m.REL_SPEED, !.aRel = m.REL_ACCEL, !.yvRel = "nan"]

\* update(can_strings) in multi-track mode with the trigger message seen:
\* the loop of lines 93-112 over the slots in address order, msg[a] the
\* reading of slot a. self.pts is a dict keyed by slot address; a slot
\* without a point gets one with the next track id, an invalid slot loses
\* its point.
UpdateTracks ==
  \E vls \in SUBSET ParserAddrs, msg \in [SlotAddrs -> TrackMsgs],
     can_valid \in BOOLEAN :
    LET missing == {a \in SlotAddrs : a \notin DOMAIN pts}
        rank(a) == Cardinality({b \in missing : b < a})
        point(a) == IF a \in DOMAIN pts THEN pts[a]
                    ELSE NewPoint(AfterTracks(track_id, rank(a)))
        kept == {a \in SlotAddrs : msg[a].STATE \in {3, 4}}
    IN  /\ new_radar
        /\ Triggered(updated_messages, vls)
        /\ track_id + Cardinality(missing) <= MaxTrackId
        /\ pts' = [a \in kept |-> TrackPoint(point(a), msg[a])]
        /\ track_id' = AfterTracks(track_id, Cardinality(missing))
        /\ assigned' = assigned \o TrackIds(track_id, Cardinality(missing))
        /\ updated_messages' = {}
        /\ rd_last' = [NoRadarCall EXCEPT !.ret = "RadarData", !.vls = vls,
                         !.can_valid = can_valid, !.points = pts',
                         !.errors = IF can_valid THEN <<>> ELSE <<"canError">>,
                         !.pts_before = pts, !.prev_dist_before = prev_dist,
                         !.track_id_before = track_id,
                         !.updated_before = updated_messages,
                         !.tracks = msg]
        /\ UNCHANGED <<new_radar, prev_dist>>

\* The same with no valid object: all tracks are cleared.
UpdateInvalid ==
  \E vls \in SUBSET ParserAddrs, can_valid \in BOOLEAN :
    /\ ~new_radar
    /\ Triggered(updated_messages, vls)
    /\ pts' = <<>>
    /\ updated_messages' = {}
    /\ rd_last' = [NoRadarCall EXCEPT !.ret = "RadarData", !.vls = vls,
                     !.can_valid = can_valid,
                     !.errors = IF can_valid THEN <<>> ELSE <<"canError">>,
                     !.pts_before = pts, !.prev_dist_before = prev_dist,
                     !.track_id_before = track_id,
                     !.updated_before = updated_messages]
    /\ UNCHANGED <<new_radar, track_id, prev_dist, assigned>>

----------------------------------------------------------------------------
(* limit_accel_in_turns  (longitudinal_planner.py:36-48)                   *)
(* Speeds are in m/s, angles in degrees, accelerations in cm/s^2,          *)
(* CP.steerRatio in tenths and CP.wheelbase in centimetres.                *)

\* _A_TOTAL_MAX_V = [1.7, 3.2] and _A_TOTAL_MAX_BP = [20., 40.]
A_TOTAL_MAX_V == <<170, 320>>
A_TOTAL_MAX_BP == <<20, 40>>

\* CV.DEG_TO_RAD = pi / 180, in millionths.
DEG_TO_RAD == 17453

\* interp(x, xp, fp) for two breakpoints: linear between them, the end
\* values outside.
Interp(x, xp, fp) ==
  IF x <= xp[1] THEN fp[1]
  ELSE IF x >= xp[2] THEN fp[2]
  ELSE fp[1] + ((x - xp[1]) * (fp[2] - fp[1])) \div (xp[2] - xp[1])

\* The largest r + k * b, k in {0, 1}, b halving down to 1, whose square is
\* at most n.
RECURSIVE SqrtBits(_, _, _)
SqrtBits(n, r, b) ==
  IF b = 0 THEN r
  ELSE IF (r + b) * (r + b) <= n THEN SqrtBits(n, r + b, b \div 2)
  ELSE SqrtBits(n, r, b \div 2)

\* math.sqrt(n), rounded down, for n up to the square of the largest total
\* acceleration.
Sqrt(n) == SqrtBits(n, 0, 256)

\* a_y = v_ego ** 2 * angle_steers * CV.DEG_TO_RAD
\*         / (CP.steerRatio * CP.wheelbase)
LateralAccel(v_ego, angle_steers, CP) ==
  LET mag == (v_ego * v_ego * Abs(angle_steers) * DEG_TO_RAD)
               \div (CP.steerRatio * CP.wheelbase * 10)
  IN  IF angle_steers < 0 THEN -mag ELSE mag

\* a_x_allowed = math.sqrt(max(a_total_max ** 2 - a_y ** 2, 0.))
LongAccelAllowed(v_ego, angle_steers, CP) ==
  LET a_total_max == Interp(v_ego, A_TOTAL_MAX_BP, A_TOTAL_MAX_V)
      a_y == LateralAccel(v_ego, angle_steers, CP)
  IN  Sqrt(Max(a_total_max * a_total_max - a_y * a_y, 0))

\* A variant that returns the allowed value without comparing it to the
\* target.
LimitAccelNoMin(v_ego, angle_steers, a_target, CP) ==
  <<a_target[1], LongAccelAllowed(v_ego, angle_steers, CP)>>

\* return [a_target[0], min(a_target[1], a_x_allowed)]
LimitAccelInTurns(v_ego, angle_steers, a_target, CP) ==
  <<a_target[1], Min(a_target[2], LongAccelAllowed(v_ego, angle_steers, CP))>>

\* Arguments tried. The planner passes [A_CRUISE_MIN, get_max_accel(v_ego)],
\* get_max_accel in [0.6, 1.8]; other targets, one with a negative upper
\* bound, are tried as well.
TurnSpeeds == {0, 10, 20, 26, 30, 40, 50}
TurnAngles == {-45, -10, -2, 0, 2, 10, 45}
TurnTargets == {<<lo, hi>> : lo \in {-120, 0}, hi \in {-50, 0, 60, 180, 400}}
TurnCarParams ==
  { [steerRatio |-> 153, wheelbase |-> 284],
    [steerRatio |-> 158, wheelbase |-> 301] }

NoTurnArgs ==
  [v_ego |-> 0, angle_steers |-> 0, a_target |-> <<0, 0>>,
   CP |-> [steerRatio |-> 153, wheelbase |-> 284]]

TurnIdle == la_args = NoTurnArgs /\ la_result = NoValue

\* One call of limit_accel_in_turns.
CallLimitAccelInTurns ==
  /\ la_result = NoValue
  /\ \E v_ego \in TurnSpeeds, angle_steers \in TurnAngles,
        a_target \in TurnTargets, CP \in TurnCarParams :
       /\ la_args' = [v_ego |-> v_ego, angle_steers |-> angle_steers,
                      a_target |-> a_target, CP |-> CP]
       /\ la_result' = LimitAccelInTurns(v_ego, angle_steers, a_target, CP)

----------------------------------------------------------------------------
(* CarInterface._get_params: bus topology, cruise ownership and safety     *)
(* model  (hyundai/interface.py:41-45 and 326-352)                         *)

\* The CAN ids that decide these fields: MDPS12 (593), SCC11 (1056) and the
\* L-CAN id 1296.
FpIds == {593, 1056, 1296}

\* fingerprint: for each bus 0, 1, 2 the ids seen on it.
Fingerprints == [0..2 -> SUBSET FpIds]

\* ret.mdpsBus
MdpsBus(fp) == IF 593 \in fp[1] /\ 1296 \notin fp[1] THEN 1 ELSE 0

\* A variant that does not look for the L-CAN id on bus 1.
SccBusAnyBus1(fp) ==
  IF 1056 \in fp[0] THEN 0
  ELSE IF 1056 \in fp[1] THEN 1
  ELSE IF 1056 \in fp[2] THEN 2
  ELSE -1

\* ret.sccBus
SccBus(fp) ==
  IF 1056 \in fp[0] THEN 0
  ELSE IF 1056 \in fp[1] /\ 1296 \notin fp[1] THEN 1
  ELSE IF 1056 \in fp[2] THEN 2
  ELSE -1

\* The fields of the returned CarParams; long_control and mad_mode are the
\* persisted flags LongControlEnabled and MadModeEnabled.
GetParams(fp, long_control, mad_mode) ==
  LET mdpsBus == MdpsBus(fp)
      sccBus == SccBus(fp)
      radarOffCan == (sccBus = -1)
  IN  [openpilotLongitudinalControl |-> long_control,
       mdpsBus |-> mdpsBus, sccBus |-> sccBus,
       radarOffCan |-> radarOffCan, pcmCruise |-> ~radarOffCan,
       safetyModel |->
         IF radarOffCan \/ mdpsBus = 1 \/ long_control \/ sccBus = 1
              \/ mad_mode
           THEN "hyundaiCommunity" ELSE "hyundaiLegacy"]

NoParamsArgs ==
  [fingerprint |-> [b \in 0..2 |-> {}], long_control |-> FALSE,
   mad_mode |-> FALSE]

ParamsIdle == gp_args = NoParamsArgs /\ gp_ret = NoValue

\* One call of _get_params.
CallGetParams ==
  /\ gp_ret = NoValue
  /\ \E fp \in Fingerprints, long_control \in BOOLEAN, mad_mode \in BOOLEAN :
       /\ gp_args' = [fingerprint |-> fp, long_control |-> long_control,
                      mad_mode |-> mad_mode]
       /\ gp_ret' = GetParams(fp, long_control, mad_mode)

----------------------------------------------------------------------------
(* The Hyundai CarInterface.update  (hyundai/interface.py:359-462) with    *)
(* CarInterfaceBase.create_common_events  (interfaces.py:379-440).         *)
(* Speeds are in mm/s. One cycle is given by a record e of what the cycle  *)
(* reads: the three decoders after update_strings, the CarState CS.update  *)
(* derived, and the controller's flags.                                    *)

\* hyundai.values.Buttons: the raw cruise-button codes.
Buttons ==
  [NONE |-> 0, RES_ACCEL |-> 1, SET_DECEL |-> 2, GAP_DIST |-> 3, CANCEL |-> 4]

\* int(1.5 / DT_CTRL), DT_CTRL = 0.01 s
SILENT_STEER_CYCLES == 150

\* Cycles counted by steering_unpressed in one behaviour.
MaxUnpressed == 152

\* A decoder's can_valid and bus_timeout flags.
ParserStates == [can_valid : BOOLEAN, bus_timeout : BOOLEAN]

\* ret.canValid = self.cp.can_valid and self.cp2.can_valid
\*                and self.cp_cam.can_valid
CanValid(e) == e.cp.can_valid /\ e.cp2.can_valid /\ e.cp_cam.can_valid

\* ret.canTimeout = any(cp.bus_timeout for cp in self.can_parsers
\*                      if cp is not None)
\* can_parsers is [cp, cp_cam, cp_adas, cp_body, cp_loopback]
\* (interfaces.py:202); the last three are None (interfaces.py:554-563).
CanTimeout(e) == e.cp.bus_timeout \/ e.cp_cam.bus_timeout

\* A variant that only hands the cruise over, never back.
SyncPcmCruiseDemoteOnly(pcm, scc_live) ==
  IF pcm /\ ~scc_live THEN FALSE ELSE pcm

\* Lines 368-371.
SyncPcmCruise(pcm, scc_live) ==
  IF pcm /\ ~scc_live THEN FALSE
  ELSE IF scc_live /\ ~pcm THEN TRUE
  ELSE pcm

\* Lines 375-376: in mad mode cruiseState.enabled follows
\* cruiseState.available.
CruiseEnabled(e, mad) == IF mad THEN e.available ELSE e.enabled

\* Lines 379-382; e.below_lane_change_min is
\* ret.vEgo < LANE_CHANGE_SPEED_MIN - 1.2.
TurningIndicatorAlert(e) ==
  /\ ~e.keep_steering_turn_signals
  /\ e.leftBlinker \/ e.rightBlinker \/ e.turning_signal_timer # 0
  /\ e.below_lane_change_min

\* A variant that latches whatever the steer floor is.
LowSpeedAlertAnyFloor(latch, vEgo, min_steer) ==
  LET set == IF vEgo < min_steer + 200 THEN TRUE ELSE latch
  IN  IF vEgo > min_steer + 700 THEN FALSE ELSE set

\* Lines 385-388.
LowSpeedAlert(latch, vEgo, min_steer) ==
  LET set == IF vEgo < min_steer + 200 /\ min_steer > 10000
               THEN TRUE ELSE latch
  IN  IF vEgo > min_steer + 700 THEN FALSE ELSE set

\* Lines 395-404: the type of a cruise-button event.
ButtonTypeOf(but) ==
  IF but = Buttons.RES_ACCEL THEN "accelCruise"
  ELSE IF but = Buttons.SET_DECEL THEN "decelCruise"
  ELSE IF but = Buttons.GAP_DIST THEN "gapAdjustCruise"
  ELSE "unknown"

\* Lines 390-411: the cycle's buttonEvents, from the previous and current
\* raw codes.
SynthButtonEvents(prev, cur, prev_main, main) ==
  (IF cur # prev
     THEN <<[type |-> ButtonTypeOf(IF cur # 0 THEN cur ELSE prev),
             pressed |-> cur # 0]>>
     ELSE <<>>)
  \o (IF main # prev_main
        THEN <<[type |-> "altButton3", pressed |-> main # 0]>>
        ELSE <<>>)

\* interfaces.py:409
Unpressed(cnt, pressed) == IF pressed THEN 0 ELSE cnt + 1

\* A variant that suppresses the warning whenever the driver is pressing.
SteerSuppressedPressed(e, prev_fault, no_warning) == e.steeringPressed

\* interfaces.py:411: the fault is not reported at all.
SteerSuppressed(e, prev_fault, no_warning) ==
  e.steeringPressed /\ (~prev_fault \/ no_warning)

\* A variant without the latch.
SteerSilentNoLatch(e, silent, unpressed) ==
  e.standstill \/ unpressed < SILENT_STEER_CYCLES

\* interfaces.py:417: the fault is reported as the silent event.
SteerSilent(e, silent, unpressed) ==
  silent \/ e.standstill \/ unpressed < SILENT_STEER_CYCLES

\* interfaces.py:408-424: the steering-fault events of the cycle and the
\* two latches after it; unpressed is the counter after line 409.
SteerFault(e, prev_fault, silent, no_warning, unpressed) ==
  IF e.steerFaultTemporary
    THEN IF SteerSuppressed(e, prev_fault, no_warning)
           THEN [events |-> {}, silent |-> silent, no_warning |-> TRUE]
         ELSE IF SteerSilent(e, silent, unpressed)
           THEN [events |-> {"steerTempUnavailableSilent"}, silent |-> TRUE,
                 no_warning |-> FALSE]
         ELSE [events |-> {"steerTempUnavailable"}, silent |-> silent,
               no_warning |-> FALSE]
    ELSE [events |-> {}, silent |-> FALSE, no_warning |-> FALSE]

\* A variant whose auto-engage does not ask whether cruise is enabled.
PcmEventsAutoAlways(e, enabled, prev_enabled) ==
  (IF enabled /\ ~prev_enabled THEN {"pcmEnable"}
   ELSE IF ~enabled THEN {"pcmDisable"} ELSE {})
  \cup (IF e.gearShifter = "drive" /\ e.vEgo * 36 > 5 * 10000
          THEN {"pcmEnable"} ELSE {})

\* interfaces.py:428-438, pcm_enable at its default True; prev_enabled is
\* CS.out.cruiseState.enabled.
PcmEvents(e, enabled, prev_enabled) ==
  (IF enabled /\ ~prev_enabled THEN {"pcmEnable"}
   ELSE IF ~enabled THEN {"pcmDisable"} ELSE {})
  \cup (IF enabled /\ e.gearShifter = "drive" /\ e.vEgo * 36 > 5 * 10000
          THEN {"pcmEnable"} ELSE {})

\* interfaces.py:389-406 and 425: the events that depend on the state alone.
StatusEvents(e) ==
  (IF e.gearShifter = "reverse" THEN {"reverseGear"} ELSE {})
  \cup (IF ~e.available THEN {"wrongCarMode"} ELSE {})
  \cup (IF e.espDisabled THEN {"espDisabled"} ELSE {})
  \cup (IF e.stockFcw THEN {"stockFcw"} ELSE {})
  \cup (IF e.stockAeb THEN {"stockAeb"} ELSE {})
  \cup (IF e.vEgo * 36 > (V_CRUISE_MAX + 4) * 10000
          THEN {"speedTooHigh"} ELSE {})
  \cup (IF e.nonAdaptive THEN {"wrongCruiseMode"} ELSE {})
  \cup (IF e.parkingBrake THEN {"parkBrake"} ELSE {})
  \cup (IF e.steerFaultPermanent THEN {"steerUnavailable"} ELSE {})

\* log.LongitudinalPersonality for the gap values of lines 415-426.
Personality(gap) ==
  IF gap = 4 THEN "relaxed"
  ELSE IF gap = 3 THEN "standard"
  ELSE IF gap = 2 THEN "moderate"
  ELSE "aggressive"

\* A variant that does not record the gap it has written.
GapStepForget(st, gap, k) ==
  IF gap = k /\ st.prev # k
    THEN [prev |-> st.prev, puts |-> Append(st.puts, Personality(k))]
    ELSE st

\* One of the four if-statements of lines 415-426, for the gap value k:
\* st.prev is cruise_gapPrev, st.puts the values handed to
\* Params().put_nonblocking("LongitudinalPersonality", ...) so far.
GapStep(st, gap, k) ==
  IF gap = k /\ st.prev # k
    THEN [prev |-> k, puts |-> Append(st.puts, Personality(k))]
    ELSE st

\* Lines 415-426 in their order: 4, 3, 2, 1.
GapPersonality(gap, prev) ==
  GapStep(GapStep(GapStep(GapStep([prev |-> prev, puts |-> <<>>],
                                  gap, 4), gap, 3), gap, 2), gap, 1)

\* A variant that leaves wrongCarMode and pcmDisable in the events.
HandleButtonKeep(events, b, e, enabled) ==
  LET e1 == IF b.type = "cancel" /\ b.pressed
              THEN events \cup {"buttonCancel"} ELSE events
  IN  IF e.longcontrol /\ ~e.scc_live
        THEN IF b.type \in {"accelCruise", "decelCruise"} /\ ~b.pressed
               THEN e1 \cup {"buttonEnable"} ELSE e1
      ELSE IF ~e.longcontrol /\ enabled
        THEN IF b.type = "decelCruise" /\ ~b.pressed
               THEN e1 \cup {"buttonEnable"} ELSE e1
      ELSE e1

\* Lines 439-453 for one button event b.
HandleButton(events, b, e, enabled) ==
  LET e1 == IF b.type = "cancel" /\ b.pressed
              THEN events \cup {"buttonCancel"} ELSE events
  IN  IF e.longcontrol /\ ~e.scc_live
        THEN (IF b.type \in {"accelCruise", "decelCruise"} /\ ~b.pressed
                THEN e1 \cup {"buttonEnable"} ELSE e1)
             \ {"wrongCarMode", "pcmDisable"}
      ELSE IF ~e.longcontrol /\ enabled
        THEN IF b.type = "decelCruise" /\ ~b.pressed
               THEN e1 \cup {"buttonEnable"} ELSE e1
      ELSE e1

\* The loop of line 438 from the i-th button event on.
RECURSIVE HandleButtons(_, _, _, _, _)
HandleButtons(events, bs, e, enabled, i) ==
  IF i > Len(bs) THEN events
  ELSE HandleButtons(HandleButton(events, bs[i], e, enabled), bs, e,
                     enabled, i + 1)

\* A cycle in which nothing is wrong and nothing is pressed but the wheel.
DefaultEnv ==
  [cp |-> [can_valid |-> TRUE, bus_timeout |-> FALSE],
   cp2 |-> [can_valid |-> TRUE, bus_timeout |-> FALSE],
   cp_cam |-> [can_valid |-> TRUE, bus_timeout |-> FALSE],
   available |-> TRUE, enabled |-> FALSE,
   leftBlinker |-> FALSE, rightBlinker |-> FALSE,
   vEgo |-> 15000, gearShifter |-> "drive",
   espDisabled |-> FALSE, stockFcw |-> FALSE, stockAeb |-> FALSE,
   nonAdaptive |-> FALSE, parkingBrake |-> FALSE,
   steeringPressed |-> TRUE, steerFaultTemporary |-> FALSE,
   steerFaultPermanent |-> FALSE, standstill |-> FALSE,
   cruise_buttons |-> 0, cruise_main_button |-> 0, cruise_gap |-> 0,
   cruise_unavail |-> FALSE, mdps_bus |-> 0,
   scc_live |-> TRUE, longcontrol |-> FALSE,
   keep_steering_turn_signals |-> FALSE, turning_signal_timer |-> 0,
   below_lane_change_min |-> FALSE]

\* Cycles that differ in what the three decoders report.
CanEnvs ==
  {[DefaultEnv EXCEPT !.cp = a, !.cp2 = b, !.cp_cam = c, !.scc_live = l] :
     a \in ParserStates, b \in ParserStates, c \in ParserStates,
     l \in BOOLEAN}

\* Cycles that differ in the steering state.
SteerEnvs ==
  {[DefaultEnv EXCEPT !.steeringPressed = p, !.steerFaultTemporary = f,
                      !.steerFaultPermanent = q, !.standstill = st] :
     p \in BOOLEAN, f \in BOOLEAN, q \in BOOLEAN, st \in BOOLEAN}

\* Cycles that differ in the cruise-gap reading and the main button.
GapEnvs ==
  {[DefaultEnv EXCEPT !.cruise_gap = g, !.cruise_main_button = m] :
     g \in 0..4, m \in 0..1}

\* Cycles that differ in the buttons and in who controls the speed.
ButtonEnvs ==
  {[DefaultEnv EXCEPT !.cruise_buttons = b, !.cruise_main_button = m,
                      !.longcontrol = lc, !.scc_live = l, !.enabled = en] :
     b \in 0..4, m \in 0..1, lc \in BOOLEAN, l \in BOOLEAN, en \in BOOLEAN}

\* Cycles that differ in the accel, decel and main buttons, in who controls
\* the speed and in whether cruise is available.
EnableEnvs ==
  {[DefaultEnv EXCEPT !.cruise_buttons = b, !.cruise_main_button = m,
                      !.longcontrol = lc, !.scc_live = l, !.enabled = en,
                      !.available = av] :
     b \in 0..2, m \in 0..1, lc \in BOOLEAN, l \in BOOLEAN, en \in BOOLEAN,
     av \in BOOLEAN}

\* Cycles that differ in the speed and in the bus the MDPS is on.
SpeedEnvs ==
  {[DefaultEnv EXCEPT !.vEgo = v, !.mdps_bus = b] :
     v \in {0, 100, 200, 700, 800, 14400, 14500, 14800, 15000, 15100},
     b \in 0..1}

\* CP.minSteerSpeed as _get_params leaves it (interfaces.py:310,
\* hyundai/interface.py:348).
MinSteerSpeeds == {0}

\* CP.minSteerSpeed of a CarParams handed to the constructor: the value of
\* this build, and the 32 mph floor of hyundai/interface.py:191.
SteerFloors == {0, 14300}

NoUpdate ==
  [called |-> FALSE, e |-> DefaultEnv,
   before |-> [cruise_buttons |-> 0, cruise_main_button |-> 0,
               cruise_gap |-> 0, cruise_gapPrev |-> 0, gap_seen |-> 0,
               pcmCruise |-> TRUE, steering_unpressed |-> 0,
               silent_steer_warning |-> TRUE, no_steer_warning |-> FALSE,
               low_speed_alert |-> FALSE, silent_raised |-> FALSE,
               out |-> [steerFaultTemporary |-> FALSE, enabled |-> FALSE]],
   canValid |-> FALSE, canTimeout |-> FALSE, enabled |-> FALSE,
   buttonEvents |-> <<>>, common |-> {}, events |-> {}, puts |-> <<>>]

\* CarInterface.__init__ (hyundai/interface.py:23-28, interfaces.py:186-202)
\* and CarStateBase.__init__ (interfaces.py:458-483).
HyConstructed ==
  /\ cruise_buttons = 0
  /\ cruise_main_button = 0
  /\ cruise_gap = 0
  /\ cruise_gapPrev = 0
  /\ steering_unpressed = 0
  /\ low_speed_alert = FALSE
  /\ silent_steer_warning = TRUE
  /\ no_steer_warning = FALSE
  /\ turning_indicator_alert = FALSE
  /\ CS_out = [steerFaultTemporary |-> FALSE, enabled |-> FALSE]
  /\ gap_seen = 0
  /\ silent_raised = FALSE
  /\ hy_last = NoUpdate

HyIdle ==
  /\ mad_mode_enabled = FALSE
  /\ minSteerSpeed = 0
  /\ pcmCruise = TRUE
  /\ HyConstructed

HyInit ==
  /\ mad_mode_enabled \in BOOLEAN
  /\ minSteerSpeed \in MinSteerSpeeds
  /\ pcmCruise \in BOOLEAN
  /\ HyConstructed

\* A CarInterface constructed for a CarParams with either steer floor.
HyFloorInit ==
  /\ mad_mode_enabled \in BOOLEAN
  /\ minSteerSpeed \in SteerFloors
  /\ pcmCruise \in BOOLEAN
  /\ HyConstructed

\* CarInterface.update for a cycle e of Envs; CC.scc_smoother is None.
Update(Envs) ==
  \E e \in Envs :
    LET enabled == CruiseEnabled(e, mad_mode_enabled)
        turning == TurningIndicatorAlert(e)
        low == LowSpeedAlert(low_speed_alert, e.vEgo, minSteerSpeed)
        bs == SynthButtonEvents(cruise_buttons, e.cruise_buttons,
                                cruise_main_button, e.cruise_main_button)
        unpressed == Unpressed(steering_unpressed, e.steeringPressed)
        sf == SteerFault(e, CS_out.steerFaultTemporary, silent_steer_warning,
                         no_steer_warning, unpressed)
        common == StatusEvents(e) \cup sf.events
                    \cup PcmEvents(e, enabled, CS_out.enabled)
        gp == GapPersonality(e.cruise_gap, cruise_gapPrev)
        own == common
                 \cup (IF e.longcontrol /\ e.cruise_unavail
                         THEN {"brakeUnavailable"} ELSE {})
                 \cup (IF low /\ e.mdps_bus = 0
                         THEN {"belowSteerSpeed"} ELSE {})
                 \cup (IF turning THEN {"turningIndicatorOn"} ELSE {})
        events == HandleButtons(own, bs, e, enabled, 1)
    IN  /\ e.steeringPressed \/ steering_unpressed < MaxUnpressed
        /\ pcmCruise' = SyncPcmCruise(pcmCruise, e.scc_live)
        /\ turning_indicator_alert' = turning
        /\ low_speed_alert' = low
        /\ cruise_buttons' = e.cruise_buttons
        /\ cruise_main_button' = e.cruise_main_button
        /\ cruise_gap' = e.cruise_gap
        /\ steering_unpressed' = unpressed
        /\ silent_steer_warning' = sf.silent
        /\ no_steer_warning' = sf.no_warning
        /\ cruise_gapPrev' = gp.prev
        /\ gap_seen' = IF e.cruise_gap \in 1..4 THEN e.cruise_gap ELSE gap_seen
        /\ silent_raised' =
             /\ e.steerFaultTemporary
             /\ silent_raised \/ "steerTempUnavailableSilent" \in sf.events
        /\ CS_out' = [steerFaultTemporary |-> e.steerFaultTemporary,
                      enabled |-> enabled]
        /\ hy_last' =
             [called |-> TRUE, e |-> e,
              before |-> [cruise_buttons |-> cruise_buttons,
                          cruise_main_button |-> cruise_main_button,
                          cruise_gap |-> cruise_gap,
                          cruise_gapPrev |-> cruise_gapPrev,
                          gap_seen |-> gap_seen,
                          pcmCruise |-> pcmCruise,
                          steering_unpressed |-> steering_unpressed,
                          silent_steer_warning |-> silent_steer_warning,
                          no_steer_warning |-> no_steer_warning,
                          low_speed_alert |-> low_speed_alert,
                          silent_raised |-> silent_raised,
                          out |-> CS_out],
              canValid |-> CanValid(e), canTimeout |-> CanTimeout(e),
              enabled |-> enabled, buttonEvents |-> bs, common |-> common,
              events |-> events, puts |-> gp.puts]
        /\ UNCHANGED <<mad_mode_enabled, minSteerSpeed>>

----------------------------------------------------------------------------
(* get_lag_adjusted_curvature  (drive_helpers.py:105-136)                  *)
(* Headings are in micro-radians, distances in millimetres, curvatures in  *)
(* 1e-6 1/m, curvature rates in 1e-6 1/(m s), speeds in m/s and times in   *)
(* 1/1024 s.                                                               *)

CONTROL_N == 17
MIN_DIST == 1
MIN_SPEED == 1
MAX_LATERAL_JERK == 10

\* selfdrive.modeld.constants.T_IDXS[:CONTROL_N]: 10 * (i / 32) ** 2 seconds
\* for i = 0..16.
T_IDXS == [i \in 1..CONTROL_N |-> 10 * (i - 1) * (i - 1)]

\* interp(x, xp, fp) of common.numpy_fast for increasing xp: the end values
\* outside the table, linear between neighbours inside.
InterpTable(x, xp, fp) ==
  IF x <= xp[1] THEN fp[1]
  ELSE IF x >= xp[Len(xp)] THEN fp[Len(xp)]
  ELSE LET i == CHOOSE k \in 1..(Len(xp) - 1) : xp[k] <= x /\ x < xp[k + 1]
       IN  fp[i] + ((x - xp[i]) * (fp[i + 1] - fp[i])) \div (xp[i + 1] - xp[i])

\* Lines 111-136, once the four trajectories have passed lines 106-110.
LagAdjusted(v_ego_in, delay, psis, curvatures, curvature_rates, distances, average_desired_curvature) ==
  IF Len(curvatures) = 0 \/ Len(curvature_rates) = 0
    THEN [kind |-> "IndexError"]
    ELSE
      LET v_ego == Max(MIN_SPEED, v_ego_in)
          current_curvature_desired == curvatures[1]
          psi == InterpTable(delay, T_IDXS, psis)
          distance == Max(MIN_DIST, InterpTable(delay, T_IDXS, distances))
          average_curvature_desired ==
            IF average_desired_curvature
              THEN (psi * 1000) \div distance
              ELSE (psi * 1024) \div (v_ego * delay)
          desired_curvature ==
            2 * average_curvature_desired - current_curvature_desired
          max_curvature_rate ==
            (MAX_LATERAL_JERK * 1000000) \div (v_ego * v_ego)
      IN  [kind |-> "ok",
           curvature |->
             Clip((desired_curvature * 105) \div 100,
                  current_curvature_desired - max_curvature_rate \div 20,
                  current_curvature_desired + max_curvature_rate \div 20),
           rate |-> Clip(curvature_rates[1], -max_curvature_rate,
                         max_curvature_rate)]

\* get_lag_adjusted_curvature; delay is
\* ntune_common_get("steerActuatorDelay") + .2.
GetLagAdjustedCurvature(v_ego, delay, psis, curvatures, curvature_rates, distances, average_desired_curvature) ==
  IF Len(psis) # CONTROL_N \/ Len(distances) # CONTROL_N
    THEN LagAdjusted(v_ego, delay, Zeros(CONTROL_N), Zeros(CONTROL_N),
                     Zeros(CONTROL_N), Zeros(CONTROL_N),
                     average_desired_curvature)
    ELSE LagAdjusted(v_ego, delay, psis, curvatures, curvature_rates,
                     distances, average_desired_curvature)

\* Trajectories tried: full, one sample short, and empty.
TrajLens == {CONTROL_N, CONTROL_N - 1, 0}
PsiTrajs == {[i \in 1..n |-> 200 * (i - 1)] : n \in TrajLens}
CurvatureTrajs == {[i \in 1..n |-> 300] : n \in TrajLens}
CurvatureRateTrajs == {[i \in 1..n |-> 5000] : n \in TrajLens}
DistanceTrajs == {[i \in 1..n |-> 400 * (i - 1)] : n \in TrajLens}
CurvSpeeds == {0, 5, 20}
\* steerActuatorDelay 0, 0.1 and 0.3 s, plus 0.2 s
CurvDelays == {205, 307, 512}

NoCurvArgs ==
  [v_ego |-> 0, delay |-> 205, psis |-> <<>>, curvatures |-> <<>>,
   curvature_rates |-> <<>>, distances |-> <<>>,
   average_desired_curvature |-> FALSE]

CurvIdle == lc_args = NoCurvArgs /\ lc_result = NoValue

\* One call of get_lag_adjusted_curvature.
CallGetLagAdjustedCurvature ==
  /\ lc_result = NoValue
  /\ \E v_ego \in CurvSpeeds, delay \in CurvDelays, psis \in PsiTrajs,
        curvatures \in CurvatureTrajs,
        curvature_rates \in CurvatureRateTrajs, distances \in DistanceTrajs,
        average_desired_curvature \in BOOLEAN :
       /\ lc_args' = [v_ego |-> v_ego, delay |-> delay, psis |-> psis,
                      curvatures |-> curvatures,
                      curvature_rates |-> curvature_rates,
                      distances |-> distances,
                      average_desired_curvature |->
                        average_desired_curvature]
       /\ lc_result' =
            GetLagAdjustedCurvature(v_ego, delay, psis, curvatures,
                                    curvature_rates, distances,
                                    average_desired_curvature)

----------------------------------------------------------------------------
(* Planner  (longitudinal_planner.py:51-235)                               *)
(* Accelerations are in cm/s^2, speeds handed to limit_accel_in_turns in   *)
(* m/s, cruise speeds in mm/s. The speed filter and the solution           *)
(* trajectories, which the solver and FirstOrderFilter compute, are not    *)
(* represented; the solver's source, crash count and next desired          *)
(* acceleration come with the cycle.                                       *)

A_CRUISE_MIN == -120
A_CRUISE_MAX_VALS == <<180, 130, 80, 60>>
A_CRUISE_MAX_BP == <<0, 10, 25, 40>>
ACCEL_MAX == 200
ACCEL_MIN == -400

\* The period of line 111.
PARAM_READ_PERIOD == 50

\* log.LongitudinalPersonality.standard
STANDARD == 1

\* Update calls in one behaviour, where the read period matters and where it
\* does not.
MaxPlanCalls == 101
MaxLimitCalls == 2

\* get_max_accel
GetMaxAccel(v_ego) == InterpTable(v_ego, A_CRUISE_MAX_BP, A_CRUISE_MAX_VALS)

\* The persisted store: the two flags and the raw LongitudinalPersonality
\* value, absent ("none"), a decimal numeral or something else.
Stores ==
  { [EndToEndLong |-> FALSE, DynamicPersonality |-> FALSE,
     LongitudinalPersonality |-> "none"],
    [EndToEndLong |-> TRUE, DynamicPersonality |-> TRUE,
     LongitudinalPersonality |-> "2"],
    [EndToEndLong |-> FALSE, DynamicPersonality |-> TRUE,
     LongitudinalPersonality |-> "junk"],
    [EndToEndLong |-> FALSE, DynamicPersonality |-> FALSE,
     LongitudinalPersonality |-> "0"] }

\* Lines 90-93: int(params.get('LongitudinalPersonality')), standard on
\* ValueError or TypeError.
ParsePersonality(raw) ==
  IF raw = "0" THEN 0
  ELSE IF raw = "1" THEN 1
  ELSE IF raw = "2" THEN 2
  ELSE IF raw = "3" THEN 3
  ELSE STANDARD

\* read_param: the three fields it assigns.
ReadParam(store) ==
  [mode |-> IF store.EndToEndLong THEN "blended" ELSE "acc",
   dynamic_personality |-> store.DynamicPersonality,
   personality |-> ParsePersonality(store.LongitudinalPersonality)]

\* A variant that reads one call late.
ReadDueLate(counter, read) == (counter + 1) % PARAM_READ_PERIOD = 0 /\ read

\* Line 111.
ReadDue(counter, read) == counter % PARAM_READ_PERIOD = 0 /\ read

\* Lines 116-124: the cruise speed in mm/s from controlsState.vCruise in kph
\* and carState.vCluRatio in thousandths.
CruiseSpeed(vCruise, vCluRatio, cluster) ==
  LET v_cruise == (Min(vCruise, V_CRUISE_MAX) * 10000) \div 36
      scaled == (v_cruise * vCluRatio) \div 1000
  IN  IF ~cluster /\ vCluRatio > 500
        THEN (((scaled * 36 + 2500) \div 10000) * 10000) \div 36
        ELSE v_cruise

\* Lines 135-152: accel_limits and accel_limits_turns, both <<lo, hi>>.
AccelLimits(mode, e, CP) ==
  LET base == IF e.accel_ctl.enabled
                THEN <<A_CRUISE_MIN, e.accel_ctl.max_limit>>
                ELSE <<A_CRUISE_MIN, GetMaxAccel(e.vEgo)>>
  IN  IF mode = "acc"
        THEN [limits |-> base,
              turns |-> LimitAccelInTurns(e.vEgo, e.steeringAngleDeg, base,
                                          CP)]
        ELSE [limits |-> <<ACCEL_MIN, ACCEL_MAX>>,
              turns |-> <<ACCEL_MIN, ACCEL_MAX>>]

\* Lines 170-171.
WidenLimits(turns, a) == <<Min(turns[1], a + 5), Max(turns[2], a - 5)>>

\* Lines 225-235: cruise_solutions; the turn controller's is_active and
\* v_target after its update.
CruiseSolutions(v_cruise, vtc) ==
  Min(v_cruise, IF vtc.is_active THEN vtc.v_target ELSE 255000)

\* The car the planner was built for.
PlanCP == [steerRatio |-> 153, wheelbase |-> 284]

\* A planning cycle on a straight road with cruise engaged.
DefaultPlanEnv ==
  [read |-> TRUE, vEgo |-> 10, steeringAngleDeg |-> 0, aEgo |-> 0,
   standstill |-> FALSE, vCruise |-> 50, vCluRatio |-> 1000,
   long_control_off |-> FALSE, enabled |-> TRUE, forceDecel |-> FALSE,
   accel_ctl |-> [enabled |-> FALSE, max_limit |-> 0],
   vtc |-> [is_active |-> FALSE, v_target |-> 0],
   source |-> "cruise", crash_cnt |-> 0, a_next |-> 0]

\* The cycles of a caller that lets the planner read.
DefaultPlanEnvs == {DefaultPlanEnv}

\* Cycles that differ in the car's motion, the engagement, the accel
\* controller and what the solver plans next.
LimitEnvs ==
  {[DefaultPlanEnv EXCEPT !.vEgo = v, !.steeringAngleDeg = ang, !.aEgo = a,
                          !.enabled = en, !.accel_ctl = ac, !.a_next = n] :
     v \in {10, 30}, ang \in {0, 10}, a \in {-300, 100}, en \in BOOLEAN,
     ac \in {[enabled |-> FALSE, max_limit |-> 0],
             [enabled |-> TRUE, max_limit |-> 100]},
     n \in {-120, 0, 70}}

\* Cycles that differ in whether the caller lets the planner read, the turn
\* controller, the solver's source and crash count, and the forced stop.
SourceEnvs ==
  {[DefaultPlanEnv EXCEPT !.vtc = t, !.source = src, !.crash_cnt = c,
                          !.read = rd, !.forceDecel = f] :
     t \in {[is_active |-> FALSE, v_target |-> 0],
            [is_active |-> TRUE, v_target |-> 8000],
            [is_active |-> TRUE, v_target |-> 40000]},
     src \in {"lead0", "cruise", "e2e"}, c \in {0, 3},
     rd \in BOOLEAN, f \in BOOLEAN}

NoPlanUpdate ==
  [called |-> FALSE, e |-> DefaultPlanEnv, index |-> 0,
   store |-> CHOOSE st \in Stores : TRUE, limits_mode |-> "acc",
   a_before |-> 0, limits |-> <<0, 0>>, turns |-> <<0, 0>>,
   v_cruise |-> 0]

\* Planner.__init__ (lines 52-85) for stores in S, CarParams flags in L and
\* cluster-speed flags in U: read_param runs twice, then personality and
\* dynamic_personality are assigned their defaults.
PlanConstructed(S, L, U) ==
  /\ plan_store \in S
  /\ CP_openpilotLongitudinalControl \in L
  /\ use_cluster_speed \in U
  /\ param_read_counter = 0
  /\ mpc_mode = ReadParam(plan_store).mode
  /\ dynamic_personality = FALSE
  /\ personality = STANDARD
  /\ a_desired = 0
  /\ cruise_source = "cruise"
  /\ fcw = FALSE
  /\ mpc_source = "cruise"
  /\ vtc_is_active = FALSE
  /\ vtc_v_target = 0
  /\ mpc_handed = NoValue
  /\ pl_last = NoPlanUpdate
  /\ published = NoValue
  /\ store_age = 0
  /\ reads_on = TRUE
  /\ due_store = NoValue

PlanIdle ==
  PlanConstructed({CHOOSE st \in Stores : TRUE}, {FALSE}, {FALSE})

PlanInit == PlanConstructed(Stores, {FALSE}, {FALSE})

PlanLimitsInit ==
  PlanConstructed({st \in Stores : st.LongitudinalPersonality \in {"none", "2"}},
                  BOOLEAN, {FALSE})

PlanSourceInit ==
  PlanConstructed({st \in Stores : st.LongitudinalPersonality = "none"},
                  {FALSE}, BOOLEAN)

\* Planner.update(sm, read) for a cycle e of Envs, at most calls times. The
\* solver keeps the next desired acceleration inside the limits it was handed.
PlannerUpdate(Envs, calls) ==
  \E e \in Envs :
    LET due == ReadDue(param_read_counter, e.read)
        rp == IF due THEN ReadParam(plan_store)
              ELSE [mode |-> mpc_mode,
                    dynamic_personality |-> dynamic_personality,
                    personality |-> personality]
        reset_state == IF CP_openpilotLongitudinalControl
                         THEN e.long_control_off ELSE ~e.enabled
        v_cruise == CruiseSolutions(
                      CruiseSpeed(e.vCruise, e.vCluRatio, use_cluster_speed),
                      e.vtc)
    IN  \E al \in {AccelLimits(rp.mode, e, PlanCP)} :
        \E a_init \in {IF reset_state
                         THEN Clip(e.aEgo, al.limits[1], al.limits[2])
                         ELSE a_desired} :
        \E handed \in {WidenLimits(al.turns, a_init)} :
        /\ param_read_counter < calls
        /\ handed[1] <= e.a_next /\ e.a_next <= handed[2]
        /\ param_read_counter' = param_read_counter + 1
        /\ mpc_mode' = rp.mode
        /\ dynamic_personality' = rp.dynamic_personality
        /\ personality' = rp.personality
        /\ vtc_is_active' = e.vtc.is_active
        /\ vtc_v_target' = e.vtc.v_target
        /\ mpc_handed' = [lo |-> handed[1], hi |-> handed[2], a |-> a_init,
                          v_cruise |-> IF e.forceDecel THEN 0 ELSE v_cruise,
                          personality |-> rp.personality]
        /\ mpc_source' = e.source
        /\ fcw' = (e.crash_cnt > 2 /\ ~e.standstill)
        /\ a_desired' = e.a_next
        /\ pl_last' = [called |-> TRUE, e |-> e, index |-> param_read_counter,
                       store |-> plan_store, limits_mode |-> rp.mode,
                       a_before |-> a_desired, limits |-> al.limits,
                       turns |-> al.turns, v_cruise |-> v_cruise]
        /\ reads_on' = (reads_on /\ e.read)
        /\ due_store' =
             IF param_read_counter % PARAM_READ_PERIOD = 0 /\ e.read
               THEN plan_store ELSE due_store
        /\ store_age' = Min(store_age + 1, PARAM_READ_PERIOD)
        /\ UNCHANGED <<plan_store, CP_openpilotLongitudinalControl,
                       use_cluster_speed, cruise_source, published>>

\* Another process writes the persisted store.
StoreChange ==
  /\ \E st \in Stores \ {plan_store} : plan_store' = st
  /\ store_age' = 0
  /\ UNCHANGED <<CP_openpilotLongitudinalControl, use_cluster_speed,
                 param_read_counter, mpc_mode, dynamic_personality,
                 personality, a_desired, cruise_source, fcw, mpc_source,
                 vtc_is_active, vtc_v_target, mpc_handed, pl_last, published,
                 reads_on, due_store>>

\* Line 211.
PlanSource(solver_source, source) ==
  IF solver_source # "cruise" THEN solver_source ELSE source

\* Planner.publish (lines 196-223): the fields taken from the planner, with
\* the solver's source and the turn controller's state they were taken with.
Publish ==
  /\ published' =
       [longitudinalPlanSource |-> PlanSource(mpc_source, cruise_source),
        fcw |-> fcw, personality |-> personality,
        solver_source |-> mpc_source,
        vtc |-> [is_active |-> vtc_is_active, v_target |-> vtc_v_target],
        v_cruise |-> pl_last.v_cruise, updated |-> pl_last.called]
  /\ UNCHANGED <<plan_store, CP_openpilotLongitudinalControl,
                 use_cluster_speed, param_read_counter, mpc_mode,
                 dynamic_personality, personality, a_desired, cruise_source,
                 fcw, mpc_source, vtc_is_active, vtc_v_target, mpc_handed,
                 pl_last, store_age, reads_on, due_store>>

----------------------------------------------------------------------------
vars ==
  <<torqueVars, fluxVars, cruiseVars, kfVars, blinkerVars,
    radarVars, turnVars, paramsVars, hyVars, curvVars,
    planVars>>

\* Each specification starts its own subsystem from every initial state and
\* leaves the others idle.
InitTorque ==
  /\ TorqueInit
  /\ FluxIdle /\ CruiseIdle /\ KfInit /\ BlinkerIdle
  /\ RadarInit /\ TurnIdle /\ ParamsIdle /\ HyIdle
  /\ CurvIdle /\ PlanIdle
NextTorque ==
  /\ CallGetTorqueParams
  /\ UNCHANGED <<fluxVars, cruiseVars, kfVars, blinkerVars,
                 radarVars, turnVars, paramsVars, hyVars,
                 curvVars, planVars>>
SpecTorque == InitTorque /\ [][NextTorque]_vars

InitFlux ==
  /\ FluxInit
  /\ TorqueIdle /\ CruiseIdle /\ KfInit /\ BlinkerIdle
  /\ RadarInit /\ TurnIdle /\ ParamsIdle /\ HyIdle
  /\ CurvIdle /\ PlanIdle
NextFlux ==
  /\ CallEvaluate
  /\ UNCHANGED <<torqueVars, cruiseVars, kfVars, blinkerVars,
                 radarVars, turnVars, paramsVars, hyVars,
                 curvVars, planVars>>
SpecFlux == InitFlux /\ [][NextFlux]_vars

InitCruise ==
  /\ CruiseInit
  /\ TorqueIdle /\ FluxIdle /\ KfInit /\ BlinkerIdle
  /\ RadarInit /\ TurnIdle /\ ParamsIdle /\ HyIdle
  /\ CurvIdle /\ PlanIdle
NextCruise ==
  /\ CallUpdateVCruise
  /\ UNCHANGED <<torqueVars, fluxVars, kfVars, blinkerVars,
                 radarVars, turnVars, paramsVars, hyVars,
                 curvVars, planVars>>
SpecCruise == InitCruise /\ [][NextCruise]_vars

InitKf ==
  /\ KfInit
  /\ TorqueIdle /\ FluxIdle /\ CruiseIdle /\ BlinkerIdle
  /\ RadarInit /\ TurnIdle /\ ParamsIdle /\ HyIdle
  /\ CurvIdle /\ PlanIdle
NextKf ==
  \/ /\ CallUpdateSpeedKf
     /\ UNCHANGED <<torqueVars, fluxVars, cruiseVars, blinkerVars,
                    radarVars, turnVars, paramsVars, hyVars,
                    curvVars, planVars>>
  \/ /\ CallUpdateCluSpeedKf
     /\ UNCHANGED <<torqueVars, fluxVars, cruiseVars, blinkerVars,
                    radarVars, turnVars, paramsVars, hyVars,
                    curvVars, planVars>>
SpecKf == InitKf /\ [][NextKf]_vars

InitBlinker ==
  /\ BlinkerInit
  /\ TorqueIdle /\ FluxIdle /\ CruiseIdle /\ KfInit
  /\ RadarInit /\ TurnIdle /\ ParamsIdle /\ HyIdle
  /\ CurvIdle /\ PlanIdle
NextBlinker ==
  /\ CallUpdateBlinkerFromStalk
  /\ UNCHANGED <<torqueVars, fluxVars, cruiseVars, kfVars,
                 radarVars, turnVars, paramsVars, hyVars,
                 curvVars, planVars>>
SpecBlinker == InitBlinker /\ [][NextBlinker]_vars

\* A car whose blinkers are read from the lamps.
InitLamp ==
  /\ BlinkerInit
  /\ TorqueIdle /\ FluxIdle /\ CruiseIdle /\ KfInit
  /\ RadarInit /\ TurnIdle /\ ParamsIdle /\ HyIdle
  /\ CurvIdle /\ PlanIdle
NextLamp ==
  /\ CallUpdateBlinkerFromLamp
  /\ UNCHANGED <<torqueVars, fluxVars, cruiseVars, kfVars,
                 radarVars, turnVars, paramsVars, hyVars,
                 curvVars, planVars>>
SpecLamp == InitLamp /\ [][NextLamp]_vars

InitRadar ==
  /\ RadarInit
  /\ TorqueIdle /\ FluxIdle /\ CruiseIdle /\ KfInit
  /\ BlinkerIdle /\ TurnIdle /\ ParamsIdle /\ HyIdle
  /\ CurvIdle /\ PlanIdle
NextRadar ==
  \/ /\ UpdateNoTrigger
     /\ UNCHANGED <<torqueVars, fluxVars, cruiseVars, kfVars,
                    blinkerVars, turnVars, paramsVars, hyVars,
                    curvVars, planVars>>
  \/ /\ UpdateValid
     /\ UNCHANGED <<torqueVars, fluxVars, cruiseVars, kfVars,
                    blinkerVars, turnVars, paramsVars, hyVars,
                    curvVars, planVars>>
  \/ /\ UpdateInvalid
     /\ UNCHANGED <<torqueVars, fluxVars, cruiseVars, kfVars,
                    blinkerVars, turnVars, paramsVars, hyVars,
                    curvVars, planVars>>
SpecRadar == InitRadar /\ [][NextRadar]_vars

\* The radar interface in either mode.
InitRadarModes ==
  /\ (RadarInit \/ RadarTracksInit)
  /\ TorqueIdle /\ FluxIdle /\ CruiseIdle /\ KfInit
  /\ BlinkerIdle /\ TurnIdle /\ ParamsIdle /\ HyIdle
  /\ CurvIdle /\ PlanIdle
NextRadarModes ==
  \/ /\ UpdateNoTrigger
     /\ UNCHANGED <<torqueVars, fluxVars, cruiseVars, kfVars,
                    blinkerVars, turnVars, paramsVars, hyVars,
                    curvVars, planVars>>
  \/ /\ UpdateValid
     /\ UNCHANGED <<torqueVars, fluxVars, cruiseVars, kfVars,
                    blinkerVars, turnVars, paramsVars, hyVars,
                    curvVars, planVars>>
  \/ /\ UpdateInvalid
     /\ UNCHANGED <<torqueVars, fluxVars, cruiseVars, kfVars,
                    blinkerVars, turnVars, paramsVars, hyVars,
                    curvVars, planVars>>
  \/ /\ UpdateTracks
     /\ UNCHANGED <<torqueVars, fluxVars, cruiseVars, kfVars,
                    blinkerVars, turnVars, paramsVars, hyVars,
                    curvVars, planVars>>
SpecRadarModes == InitRadarModes /\ [][NextRadarModes]_vars

InitTurns ==
  /\ TurnIdle
  /\ TorqueIdle /\ FluxIdle /\ CruiseIdle /\ KfInit
  /\ BlinkerIdle /\ RadarInit /\ ParamsIdle /\ HyIdle
  /\ CurvIdle /\ PlanIdle
NextTurns ==
  /\ CallLimitAccelInTurns
  /\ UNCHANGED <<torqueVars, fluxVars, cruiseVars, kfVars,
                 blinkerVars, radarVars, paramsVars, hyVars,
                 curvVars, planVars>>
SpecTurns == InitTurns /\ [][NextTurns]_vars

InitParams ==
  /\ ParamsIdle
  /\ TorqueIdle /\ FluxIdle /\ CruiseIdle /\ KfInit
  /\ BlinkerIdle /\ RadarInit /\ TurnIdle /\ HyIdle
  /\ CurvIdle /\ PlanIdle
NextParams ==
  /\ CallGetParams
  /\ UNCHANGED <<torqueVars, fluxVars, cruiseVars, kfVars,
                 blinkerVars, radarVars, turnVars, hyVars,
                 curvVars, planVars>>
SpecParams == InitParams /\ [][NextParams]_vars

\* The Hyundai interface over cycles that differ in the decoders.
InitHyCan ==
  /\ HyInit
  /\ TorqueIdle /\ FluxIdle /\ CruiseIdle /\ KfInit
  /\ BlinkerIdle /\ RadarInit /\ TurnIdle /\ ParamsIdle
  /\ CurvIdle /\ PlanIdle
NextHyCan ==
  /\ Update(CanEnvs)
  /\ UNCHANGED <<torqueVars, fluxVars, cruiseVars, kfVars,
                 blinkerVars, radarVars, turnVars, paramsVars,
                 curvVars, planVars>>
SpecHyCan == InitHyCan /\ [][NextHyCan]_vars

\* The Hyundai interface over cycles that differ in the steering state.
InitHySteer ==
  /\ HyInit
  /\ TorqueIdle /\ FluxIdle /\ CruiseIdle /\ KfInit
  /\ BlinkerIdle /\ RadarInit /\ TurnIdle /\ ParamsIdle
  /\ CurvIdle /\ PlanIdle
NextHySteer ==
  /\ Update(SteerEnvs)
  /\ UNCHANGED <<torqueVars, fluxVars, cruiseVars, kfVars,
                 blinkerVars, radarVars, turnVars, paramsVars,
                 curvVars, planVars>>
SpecHySteer == InitHySteer /\ [][NextHySteer]_vars

\* The Hyundai interface over cycles that differ in the cruise gap.
InitHyGap ==
  /\ HyInit
  /\ TorqueIdle /\ FluxIdle /\ CruiseIdle /\ KfInit
  /\ BlinkerIdle /\ RadarInit /\ TurnIdle /\ ParamsIdle
  /\ CurvIdle /\ PlanIdle
NextHyGap ==
  /\ Update(GapEnvs)
  /\ UNCHANGED <<torqueVars, fluxVars, cruiseVars, kfVars,
                 blinkerVars, radarVars, turnVars, paramsVars,
                 curvVars, planVars>>
SpecHyGap == InitHyGap /\ [][NextHyGap]_vars

\* The Hyundai interface over cycles that differ in the buttons.
InitHyButtons ==
  /\ HyInit
  /\ TorqueIdle /\ FluxIdle /\ CruiseIdle /\ KfInit
  /\ BlinkerIdle /\ RadarInit /\ TurnIdle /\ ParamsIdle
  /\ CurvIdle /\ PlanIdle
NextHyButtons ==
  /\ Update(ButtonEnvs)
  /\ UNCHANGED <<torqueVars, fluxVars, cruiseVars, kfVars,
                 blinkerVars, radarVars, turnVars, paramsVars,
                 curvVars, planVars>>
SpecHyButtons == InitHyButtons /\ [][NextHyButtons]_vars

\* The Hyundai interface over cycles that differ in the buttons and in cruise
\* availability.
InitHyEnable ==
  /\ HyInit
  /\ TorqueIdle /\ FluxIdle /\ CruiseIdle /\ KfInit
  /\ BlinkerIdle /\ RadarInit /\ TurnIdle /\ ParamsIdle
  /\ CurvIdle /\ PlanIdle
NextHyEnable ==
  /\ Update(EnableEnvs)
  /\ UNCHANGED <<torqueVars, fluxVars, cruiseVars, kfVars,
                 blinkerVars, radarVars, turnVars, paramsVars,
                 curvVars, planVars>>
SpecHyEnable == InitHyEnable /\ [][NextHyEnable]_vars

\* The Hyundai interface over cycles that differ in the speed.
InitHySpeed ==
  /\ HyFloorInit
  /\ TorqueIdle /\ FluxIdle /\ CruiseIdle /\ KfInit
  /\ BlinkerIdle /\ RadarInit /\ TurnIdle /\ ParamsIdle
  /\ CurvIdle /\ PlanIdle
NextHySpeed ==
  /\ Update(SpeedEnvs)
  /\ UNCHANGED <<torqueVars, fluxVars, cruiseVars, kfVars,
                 blinkerVars, radarVars, turnVars, paramsVars,
                 curvVars, planVars>>
SpecHySpeed == InitHySpeed /\ [][NextHySpeed]_vars

InitCurv ==
  /\ CurvIdle
  /\ TorqueIdle /\ FluxIdle /\ CruiseIdle /\ KfInit
  /\ BlinkerIdle /\ RadarInit /\ TurnIdle /\ ParamsIdle
  /\ HyIdle /\ PlanIdle
NextCurv ==
  /\ CallGetLagAdjustedCurvature
  /\ UNCHANGED <<torqueVars, fluxVars, cruiseVars, kfVars,
                 blinkerVars, radarVars, turnVars, paramsVars,
                 hyVars, planVars>>
SpecCurv == InitCurv /\ [][NextCurv]_vars

\* The planner over update calls between which the persisted store changes.
InitPlanParams ==
  /\ PlanInit
  /\ TorqueIdle /\ FluxIdle /\ CruiseIdle /\ KfInit
  /\ BlinkerIdle /\ RadarInit /\ TurnIdle /\ ParamsIdle
  /\ HyIdle /\ CurvIdle
NextPlanParams ==
  \/ /\ PlannerUpdate(DefaultPlanEnvs, MaxPlanCalls)
     /\ UNCHANGED <<torqueVars, fluxVars, cruiseVars, kfVars,
                    blinkerVars, radarVars, turnVars, paramsVars,
                    hyVars, curvVars>>
  \/ /\ StoreChange
     /\ UNCHANGED <<torqueVars, fluxVars, cruiseVars, kfVars,
                    blinkerVars, radarVars, turnVars, paramsVars,
                    hyVars, curvVars>>
SpecPlanParams == InitPlanParams /\ [][NextPlanParams]_vars

\* The planner over cycles that differ in the car's motion and the controls
\* state.
InitPlanLimits ==
  /\ PlanLimitsInit
  /\ TorqueIdle /\ FluxIdle /\ CruiseIdle /\ KfInit
  /\ BlinkerIdle /\ RadarInit /\ TurnIdle /\ ParamsIdle
  /\ HyIdle /\ CurvIdle
NextPlanLimits ==
  /\ PlannerUpdate(LimitEnvs, MaxLimitCalls)
  /\ UNCHANGED <<torqueVars, fluxVars, cruiseVars, kfVars,
                 blinkerVars, radarVars, turnVars, paramsVars,
                 hyVars, curvVars>>
SpecPlanLimits == InitPlanLimits /\ [][NextPlanLimits]_vars

\* The planner over cycles that differ in the turn controller and the solver's
\* source, with the plan published in between.
InitPlanSource ==
  /\ PlanSourceInit
  /\ TorqueIdle /\ FluxIdle /\ CruiseIdle /\ KfInit
  /\ BlinkerIdle /\ RadarInit /\ TurnIdle /\ ParamsIdle
  /\ HyIdle /\ CurvIdle
NextPlanSource ==
  \/ /\ PlannerUpdate(SourceEnvs, MaxLimitCalls)
     /\ UNCHANGED <<torqueVars, fluxVars, cruiseVars, kfVars,
                    blinkerVars, radarVars, turnVars, paramsVars,
                    hyVars, curvVars>>
  \/ /\ Publish
     /\ UNCHANGED <<torqueVars, fluxVars, cruiseVars, kfVars,
                    blinkerVars, radarVars, turnVars, paramsVars,
                    hyVars, curvVars>>
SpecPlanSource == InitPlanSource /\ [][NextPlanSource]_vars

----------------------------------------------------------------------------
(* Claims about get_torque_params *)

TpCalled == tp_result.kind # "none"
TpResolved == Resolve(sub, candidate)

\* The record the call must return for the row `row`: one field per legend
\* entry, the i-th legend name carrying the row's i-th value.
TpIsRecordOf(row) ==
  /\ tp_result.kind = "ok"
  /\ DOMAIN tp_result.out = {legend[i] : i \in 1..Len(legend)}
  /\ \A i \in 1..Len(legend) : tp_result.out[legend[i]] = row[i]

\* C1: a candidate that, after the substitution, is a key of exactly one of
\* the override and the base table and is not a key of the substitution
\* table gets that table's row, as a record whose fields are named by the
\* legend.
C1_ExactlyOneTable ==
  (TpCalled /\ TpResolved \notin DOMAIN sub) =>
    /\ (TpResolved \in DOMAIN params /\ TpResolved \notin DOMAIN override)
         => TpIsRecordOf(params[TpResolved])
    /\ (TpResolved \in DOMAIN override /\ TpResolved \notin DOMAIN params)
         => TpIsRecordOf(override[TpResolved])

C1_Witness ==
  /\ TpCalled /\ TpResolved \notin DOMAIN sub
  /\ candidate \in DOMAIN sub
  /\ TpResolved \in DOMAIN params /\ TpResolved \notin DOMAIN override
  /\ tp_result.kind = "ok"
  /\ tp_result.out["FRICTION"] # tp_result.out["LAT_ACCEL_FACTOR"]

\* C2 as stated: a candidate present in both the base and the override table
\* gets the override table's row.
C2_OverrideWins ==
  (TpCalled /\ TpResolved \in DOMAIN params /\ TpResolved \in DOMAIN override)
    => TpIsRecordOf(override[TpResolved])

\* C2 as amended: a candidate present in both the base and the override
\* table gets no row, the call fails with the configuration conflict; the
\* override row is what a successful call returns whenever the candidate is
\* a key of the override table.
C2_BothIsConflict ==
  /\ (TpCalled /\ TpResolved \in DOMAIN params /\ TpResolved \in DOMAIN override)
       => (tp_result.kind = "RuntimeError" /\ tp_result.out = NoValue)
  /\ (tp_result.kind = "ok" /\ TpResolved \in DOMAIN override)
       => (TpResolved \notin DOMAIN params /\ TpIsRecordOf(override[TpResolved]))

C2_Witness ==
  /\ TpCalled /\ TpResolved \in DOMAIN params /\ TpResolved \in DOMAIN override
  /\ TpResolved \notin DOMAIN sub
  /\ params[TpResolved] # override[TpResolved]
  /\ tp_result.kind = "RuntimeError"

\* C3: the resolved candidate a key of more than one of the three tables:
\* the configuration-conflict error; a key of neither the override nor the
\* base table: the not-found error; no record in either case.
C3_ErrorOutcomes ==
  TpCalled =>
    /\ Cardinality({t \in {"sub", "params", "override"} :
          TpResolved \in DOMAIN (CASE t = "sub" -> sub
                                   [] t = "params" -> params
                                   [] OTHER -> override)}) > 1
         => (tp_result.kind = "RuntimeError" /\ tp_result.out = NoValue)
    /\ (TpResolved \notin DOMAIN override /\ TpResolved \notin DOMAIN params)
         => (tp_result.kind = "NotImplementedError" /\ tp_result.out = NoValue)

C3_Witness ==
  /\ TpCalled
  /\ TpResolved \in DOMAIN sub /\ TpResolved \in DOMAIN params
  /\ TpResolved \notin DOMAIN override
  /\ tp_result.kind = "RuntimeError"

----------------------------------------------------------------------------
(* Claims about FluxModel.evaluate *)

FxCalled == fx_result # "none"

\* C4: with a declared input size N >= 3, an input of length n, 2 <= n < N,
\* is followed by exactly N - n zeros and the array that is normalised has
\* length N; an input shorter than 2 fails with the invalid-input error and
\* nothing is normalised.
C4_ZeroPadding ==
  (FxCalled /\ input_size >= 3) =>
    /\ (2 <= Len(fx_input) /\ Len(fx_input) < input_size) =>
         /\ fx_result = "ok"
         /\ Len(fx_padded) = input_size
         /\ \A i \in 1..input_size :
              fx_padded[i] = IF i <= Len(fx_input) THEN fx_input[i] ELSE 0
    /\ Len(fx_input) < 2 =>
         (fx_result = "ValueError" /\ fx_padded = NoValue)

C4_Witness ==
  /\ FxCalled /\ input_size = 5 /\ Len(fx_input) = 2
  /\ fx_padded = <<fx_input[1], fx_input[2], 0, 0, 0>>

----------------------------------------------------------------------------
(* Claims about update_v_cruise *)

VcCalled == vc_result.kind # "none"

\* The call's list holds a release of a tracked button at i and none before.
VcFirstReleaseAt(i) ==
  /\ i \in 1..Len(vc_args.events)
  /\ vc_args.events[i].type \in TrackedButtons /\ ~vc_args.events[i].pressed
  /\ \A j \in 1..(i - 1) :
       ~(vc_args.events[j].type \in TrackedButtons /\ ~vc_args.events[j].pressed)

VcNoRelease == \A i \in 1..Len(vc_args.events) : ~VcFirstReleaseAt(i)

VcTimer(b) ==
  IF vc_args.timers[1].key = b THEN vc_args.timers[1].val
  ELSE vc_args.timers[2].val

VcIncrement == IF vc_args.metric THEN 100 ELSE 160

VcClamped(x) == IF x < 800 THEN 800 ELSE IF x > 18000 THEN 18000 ELSE x

\* The button the long-press branch picks: the first key of button_timers
\* whose timer is a positive multiple of 50.
VcHeld(b) ==
  /\ VcTimer(b) > 0 /\ VcTimer(b) % 50 = 0
  /\ \/ vc_args.timers[1].key = b
     \/ ~(vc_args.timers[1].val > 0 /\ vc_args.timers[1].val % 50 = 0)

\* C5: enabled, and the first release of a tracked button in the list has a
\* hold timer of at most 50: the set speed moves by one base increment (1.0
\* kph metric, 1.6 otherwise), up for accelCruise and down for decelCruise,
\* and is then clamped to [8, 180].
C5_ShortPress ==
  \A i \in 1..MaxEvents + 1 :
    (VcCalled /\ vc_args.enabled /\ VcFirstReleaseAt(i)
       /\ VcTimer(vc_args.events[i].type) <= 50) =>
      /\ vc_result.kind = "ok"
      /\ vc_result.v =
           VcClamped(vc_args.v + (IF vc_args.events[i].type = "accelCruise"
                                    THEN VcIncrement ELSE -VcIncrement))
      /\ v_cruise_kph = vc_result.v

C5_Witness ==
  /\ VcCalled /\ vc_args.enabled /\ vc_args.metric
  /\ vc_args.v = 7000 /\ VcFirstReleaseAt(2)
  /\ vc_args.events[2].type = "decelCruise" /\ VcTimer("decelCruise") = 10
  /\ VcTimer("accelCruise") = 100
  /\ vc_result.v = 6900

\* C6: enabled, no release of a tracked button in the list, and a tracked
\* button whose hold timer is a positive multiple of 50: with no set-speed
\* offset configured the call returns the set speed moved to a multiple of
\* five base increments, the ceiling (accel) or floor (decel) multiple when
\* the current value is not aligned and one such step away when it is,
\* within the clamp [8, 180]; 71.3 kph with accel held at 50 returns 75.0.
C6_LongPressSnap ==
  \A b \in TrackedButtons :
    (VcCalled /\ vc_args.enabled /\ VcNoRelease /\ VcHeld(b)
       /\ set_speed_offset.val = 0) =>
      LET step == 5 * VcIncrement
          v == vc_args.v
          snapped == IF v % step # 0
                       THEN IF b = "accelCruise"
                              THEN ((v + step - 1) \div step) * step
                              ELSE (v \div step) * step
                       ELSE IF b = "accelCruise" THEN v + step ELSE v - step
      IN  vc_result.kind = "ok" /\ vc_result.v = VcClamped(snapped)

\* C7: a call that applies a button step, short press or long press,
\* returns a value in [8, 180].
C7_RangeInvariant ==
  (VcCalled /\ vc_args.enabled
     /\ \/ \E i \in 1..MaxEvents + 1 :
             VcFirstReleaseAt(i) /\ VcTimer(vc_args.events[i].type) <= 50
        \/ VcNoRelease /\ \E b \in TrackedButtons : VcHeld(b)) =>
    /\ vc_result.kind = "ok"
    /\ 800 <= vc_result.v /\ vc_result.v <= 18000
    /\ v_cruise_kph = vc_result.v

\* The call returned its input and the caller's set speed is that value.
VcUnchanged ==
  /\ vc_result.kind = "ok" /\ vc_result.v = vc_args.v
  /\ v_cruise_kph = vc_args.v

\* C17: the call returns its input exactly when cruise is not enabled; when
\* the list holds no release of a tracked button and no tracked hold timer is
\* a positive multiple of 50; and when the first release of a tracked button
\* in the list has a hold timer above 50, whatever the other events and
\* timers of the call are.
C17_NoOp ==
  VcCalled =>
    /\ ~vc_args.enabled => VcUnchanged
    /\ (VcNoRelease /\ \A b \in TrackedButtons :
                         ~(VcTimer(b) > 0 /\ VcTimer(b) % 50 = 0))
         => VcUnchanged
    /\ \A i \in 1..MaxEvents + 1 :
         (VcFirstReleaseAt(i) /\ VcTimer(vc_args.events[i].type) > 50)
           => VcUnchanged

\* Enabled, the decel button released after a hold of 100 cycles, followed
\* in the same list by a release of the accel button held for 10 cycles.
C17_Witness ==
  /\ VcCalled /\ vc_args.enabled /\ vc_args.v = 7130
  /\ Len(vc_args.events) = 2 /\ VcFirstReleaseAt(1)
  /\ vc_args.events[1].type = "decelCruise" /\ VcTimer("decelCruise") = 100
  /\ vc_args.events[2] = [type |-> "accelCruise", pressed |-> FALSE]
  /\ VcTimer("accelCruise") = 10
  /\ vc_result.v = 7130

----------------------------------------------------------------------------
(* Claims about the velocity filters *)

KfCalled == kf_last.chan # "none"

\* The called channel's state and the other channel's state.
KfThis == IF kf_last.chan = "v_ego" THEN v_ego_kf ELSE v_ego_clu_kf
KfOther == IF kf_last.chan = "v_ego" THEN v_ego_clu_kf ELSE v_ego_kf

KfDelta ==
  IF kf_last.raw >= kf_last.before.x0 THEN kf_last.raw - kf_last.before.x0
  ELSE kf_last.before.x0 - kf_last.raw

\* C8: in either channel's update, a raw measurement more than 2.0 m/s away
\* from the filter's speed estimate replaces the filter state by [raw, 0.0]
\* before the filter step; at a difference of at most 2.0 the state handed
\* to the filter step is the unchanged one; the other channel's state is
\* never touched.
C8_FilterReset ==
  KfCalled =>
    /\ KfDelta > 2000 => kf_last.pre = [x0 |-> kf_last.raw, x1 |-> 0]
    /\ KfDelta <= 2000 => kf_last.pre = kf_last.before
    /\ KfOther = kf_last.other

\* A reset from an estimate of 10.0 m/s by a raw 13.5 m/s, in a behaviour
\* where the other channel holds a state of its own.
C8_Witness ==
  /\ KfCalled /\ kf_last.before.x0 = 10000 /\ kf_last.raw = 13500
  /\ kf_last.pre = [x0 |-> 13500, x1 |-> 0]
  /\ KfThis.x0 = 13500
  /\ KfOther.x0 = 12000

----------------------------------------------------------------------------
(* Claims about update_blinker_from_stalk *)

BlCycles == Len(bl_trace)

\* Cycle i is a rising edge of the left stalk that is released in the next
\* cycle and stays released, and the right stalk is never engaged.
BlLeftTapAt(i) ==
  /\ i \in 1..BlCycles
  /\ bl_trace[i].left_stalk
  /\ i > 1 => ~bl_trace[i - 1].left_stalk
  /\ \A j \in (i + 1)..BlCycles : ~bl_trace[j].left_stalk
  /\ \A j \in 1..BlCycles : ~bl_trace[j].right_stalk

BlRightTapAt(i) ==
  /\ i \in 1..BlCycles
  /\ bl_trace[i].right_stalk
  /\ i > 1 => ~bl_trace[i - 1].right_stalk
  /\ \A j \in (i + 1)..BlCycles : ~bl_trace[j].right_stalk
  /\ \A j \in 1..BlCycles : ~bl_trace[j].left_stalk

\* C9: after a one-cycle engagement of one stalk, the opposite stalk never
\* engaged, that side is reported on in each of the blinkerTime cycles that
\* start with the rising-edge cycle.
C9_StalkLatch ==
  \A i \in 1..MaxBlinkCycles + 1 :
    /\ BlLeftTapAt(i) =>
         \A j \in i..BlCycles : j < i + blinker_time => bl_trace[j].left
    /\ BlRightTapAt(i) =>
         \A j \in i..BlCycles : j < i + blinker_time => bl_trace[j].right

----------------------------------------------------------------------------
(* Claims about update_blinker_from_lamp *)

\* The left (right) lamp was on in cycle j or in one of the n cycles
\* before it.
BlLeftLampWithin(j, n) ==
  \E i \in 1..j : bl_trace[i].left_lamp /\ j - i <= n

BlRightLampWithin(j, n) ==
  \E i \in 1..j : bl_trace[i].right_lamp /\ j - i <= n

\* C20 as stated: a side is reported on in every cycle where its lamp is on
\* and in the blinkerTime cycles after the lamp's last on cycle, and off in
\* every other cycle, whatever the other side's lamp does.
C20_LampHold ==
  \A j \in 1..BlCycles :
    /\ bl_trace[j].left <=> BlLeftLampWithin(j, blinker_time)
    /\ bl_trace[j].right <=> BlRightLampWithin(j, blinker_time)

\* C20 as amended: a side is reported on in every cycle where its lamp is
\* on and in the blinkerTime - 1 cycles after the lamp's last on cycle, and
\* off in every other cycle, whatever the other side's lamp does.
C20_LampHoldLessOne ==
  \A j \in 1..BlCycles :
    /\ bl_trace[j].left <=> BlLeftLampWithin(j, blinker_time - 1)
    /\ bl_trace[j].right <=> BlRightLampWithin(j, blinker_time - 1)

\* blinkerTime 3, the left lamp on in the first cycle only and the right
\* lamp on in the second cycle only: left is reported in cycles 1 to 3,
\* right in cycles 2 to 4.
C20_Witness ==
  /\ blinker_time = 3 /\ BlCycles = 5
  /\ \A j \in 1..5 : bl_trace[j].left_lamp <=> j = 1
  /\ \A j \in 1..5 : bl_trace[j].right_lamp <=> j = 2
  /\ \A j \in 1..5 : bl_trace[j].left <=> j <= 3
  /\ \A j \in 1..5 : bl_trace[j].right <=> j \in 2..4

----------------------------------------------------------------------------
(* Claims about the radar interface *)

RdSnapshot == rd_last.ret = "RadarData"

\* Twenty times the distance jump, against twenty times the tolerance
\* clip(dist/20, 1, 5) m of the new reading.
RdJump20 ==
  IF rd_last.dist >= rd_last.prev_dist_before
    THEN 20 * (rd_last.dist - rd_last.prev_dist_before)
    ELSE 20 * (rd_last.prev_dist_before - rd_last.dist)

RdTol20 ==
  IF rd_last.dist < 200 THEN 200
  ELSE IF rd_last.dist > 1000 THEN 1000 ELSE rd_last.dist

\* C10: a snapshot with a valid object whose distance differs from the last
\* valid distance by more than clip(distance/20, 1, 5) m clears the tracks
\* and its single point carries a newly allocated track id; within the
\* tolerance and with a track present, the point keeps its track id and only
\* dRel, yRel and vRel are set from the reading.
C10_Reacquisition ==
  (RdSnapshot /\ rd_last.valid) =>
    /\ Len(rd_last.points) = 1 /\ pts = rd_last.points
    /\ rd_last.points[1].dRel = rd_last.dist
    /\ rd_last.points[1].yRel = -rd_last.lat
    /\ rd_last.points[1].vRel = rd_last.spd
    /\ RdJump20 > RdTol20 =>
         /\ rd_last.points[1].trackId = rd_last.track_id_before
         /\ \A k \in 1..Len(rd_last.pts_before) :
              rd_last.pts_before[k].trackId < rd_last.points[1].trackId
         /\ track_id = rd_last.track_id_before + 1
    /\ (RdJump20 <= RdTol20 /\ rd_last.pts_before # <<>>) =>
         /\ rd_last.points[1] =
              [rd_last.pts_before[1] EXCEPT !.dRel = rd_last.dist,
                                            !.yRel = -rd_last.lat,
                                            !.vRel = rd_last.spd]
         /\ track_id = rd_last.track_id_before

\* Previous valid distance 50 m with a track: 55 m re-allocates.
C10_Witness ==
  /\ RdSnapshot /\ rd_last.valid
  /\ rd_last.prev_dist_before = 500 /\ rd_last.dist = 550
  /\ rd_last.pts_before # <<>>
  /\ rd_last.points[1].trackId > rd_last.pts_before[1].trackId

\* The track ids of the points of a pts dict.
RdIdsOf(p) == {p[a].trackId : a \in DOMAIN p}

\* C11: track ids are never reused: the ids given out so far, oldest first,
\* are strictly increasing, every point carries an id that was given out,
\* no two points share an id, and a point created by the last snapshot has
\* an id above the id of every point that existed before it.
C11_TrackIdsNeverReused ==
  /\ \A i \in 1..Len(assigned) : \A j \in 1..Len(assigned) :
       i < j => assigned[i] < assigned[j]
  /\ \A a \in DOMAIN pts : \E i \in 1..Len(assigned) :
       pts[a].trackId = assigned[i]
  /\ \A a \in DOMAIN pts : \A b \in DOMAIN pts :
       a # b => pts[a].trackId # pts[b].trackId
  /\ RdSnapshot =>
       \A n \in RdIdsOf(pts) \ RdIdsOf(rd_last.pts_before) :
         \A o \in RdIdsOf(rd_last.pts_before) : o < n

\* Three tracks were created one after the other, the last one by a
\* snapshot that dropped an older track.
C11_Witness ==
  /\ RdSnapshot /\ Len(assigned) >= 3
  /\ DOMAIN rd_last.pts_before # {} /\ DOMAIN pts # {}
  /\ RdIdsOf(pts) \cap RdIdsOf(rd_last.pts_before) = {}

\* The messages accumulated when the last call looked for the trigger.
RdSeen == rd_last.updated_before \cup rd_last.vls

\* C18: with radar on CAN and a decoder, a call returns None exactly when
\* the trigger message is not among the messages accumulated since the last
\* snapshot, and then only adds the call's messages to the accumulated set;
\* otherwise it returns one snapshot and leaves the accumulated set empty,
\* so the trigger message is never carried over to the next call.
C18_SnapshotGating ==
  rd_last.ret # "none" =>
    /\ rd_last.ret = "None" <=> trigger_msg \notin RdSeen
    /\ rd_last.ret = "None" =>
         /\ updated_messages = RdSeen
         /\ pts = rd_last.pts_before /\ track_id = rd_last.track_id_before
    /\ rd_last.ret # "None" =>
         (rd_last.ret = "RadarData" /\ updated_messages = {})
    /\ trigger_msg \notin updated_messages

\* A snapshot on the call that brought the trigger message, after other
\* messages had been accumulated by calls that returned None.
C18_Witness ==
  /\ RdSnapshot /\ rd_last.updated_before # {}
  /\ trigger_msg \notin rd_last.updated_before /\ trigger_msg \in rd_last.vls
  /\ updated_messages = {}

----------------------------------------------------------------------------
(* Claims about limit_accel_in_turns *)

LaCalled == la_result # NoValue

\* C12: for every speed, steering angle and input bounds [lo, hi] with
\* hi >= 0, the returned upper bound does not exceed hi and is not negative,
\* and the returned lower bound is lo.
C12_TurnLimit ==
  (LaCalled /\ la_args.a_target[2] >= 0) =>
    /\ la_result[2] <= la_args.a_target[2]
    /\ la_result[2] >= 0
    /\ la_result[1] = la_args.a_target[1]

\* A call in which the lateral demand exceeds the total envelope and the
\* positive upper bound is cut to zero.
C12_Witness ==
  /\ LaCalled
  /\ la_args.a_target[2] > 0
  /\ la_args.angle_steers # 0
  /\ la_result[2] = 0
  /\ la_result[1] = la_args.a_target[1]

----------------------------------------------------------------------------
(* Claims about _get_params *)

GpCalled == gp_ret # NoValue
GpOn(id, bus) == id \in gp_args.fingerprint[bus]

\* C14: sccBus is 0 if id 1056 is on bus 0; else 1 if 1056 is on bus 1 and
\* 1296 is not on bus 1; else 2 if 1056 is on bus 2; else -1; and whenever
\* sccBus is -1, radarOffCan is true, pcmCruise is false and the community
\* safety model is selected.
C14_BusTopology ==
  GpCalled =>
    /\ GpOn(1056, 0) => gp_ret.sccBus = 0
    /\ (~GpOn(1056, 0) /\ GpOn(1056, 1) /\ ~GpOn(1296, 1)) =>
         gp_ret.sccBus = 1
    /\ (~GpOn(1056, 0) /\ ~(GpOn(1056, 1) /\ ~GpOn(1296, 1))
          /\ GpOn(1056, 2)) => gp_ret.sccBus = 2
    /\ (~GpOn(1056, 0) /\ ~(GpOn(1056, 1) /\ ~GpOn(1296, 1))
          /\ ~GpOn(1056, 2)) => gp_ret.sccBus = -1
    /\ gp_ret.sccBus = -1 =>
         /\ gp_ret.radarOffCan
         /\ ~gp_ret.pcmCruise
         /\ gp_ret.safetyModel = "hyundaiCommunity"

\* SCC11 is seen on bus 1 next to the L-CAN id and nowhere else, neither
\* persisted flag is set, and the car is built without radar.
C14_Witness ==
  /\ GpCalled
  /\ ~GpOn(1056, 0) /\ GpOn(1056, 1) /\ GpOn(1296, 1) /\ ~GpOn(1056, 2)
  /\ ~gp_args.long_control /\ ~gp_args.mad_mode
  /\ gp_ret.sccBus = -1
  /\ gp_ret.radarOffCan /\ ~gp_ret.pcmCruise
  /\ gp_ret.safetyModel = "hyundaiCommunity"

----------------------------------------------------------------------------
(* Claims about the Hyundai CarInterface.update *)

HyCalled == hy_last.called
HySteerEvents ==
  hy_last.events \cap {"steerTempUnavailable", "steerTempUnavailableSilent"}
HyFaultPressed ==
  HyCalled /\ hy_last.e.steerFaultTemporary /\ hy_last.e.steeringPressed
HyFaultUnpressed ==
  /\ HyCalled
  /\ hy_last.e.steerFaultTemporary
  /\ ~hy_last.e.steeringPressed
  /\ ~hy_last.e.standstill

HyGapChanged == hy_last.e.cruise_gap # hy_last.before.cruise_gap

\* C15: gap values 1, 2, 3, 4 map to aggressive, moderate, standard,
\* relaxed; the persisted personality is written exactly once each time the
\* gap value changes to one of these values, and is not written on cycles
\* that keep the gap value.
C15_GapPersonality ==
  HyCalled =>
    /\ (HyGapChanged /\ hy_last.e.cruise_gap = 1) =>
         hy_last.puts = <<"aggressive">>
    /\ (HyGapChanged /\ hy_last.e.cruise_gap = 2) =>
         hy_last.puts = <<"moderate">>
    /\ (HyGapChanged /\ hy_last.e.cruise_gap = 3) =>
         hy_last.puts = <<"standard">>
    /\ (HyGapChanged /\ hy_last.e.cruise_gap = 4) =>
         hy_last.puts = <<"relaxed">>
    /\ ~HyGapChanged => hy_last.puts = <<>>

HyGapNew ==
  hy_last.e.cruise_gap \in 1..4
    /\ hy_last.e.cruise_gap # hy_last.before.gap_seen

\* C15 as the code has it: the personality is written exactly once in each
\* cycle whose gap value is one of 1, 2, 3, 4 and differs from the last
\* earlier gap value that was one of them (none at construction), with the
\* same mapping, and in no other cycle.
C15_GapPersonalityOfLast ==
  HyCalled =>
    /\ (HyGapNew /\ hy_last.e.cruise_gap = 1) =>
         hy_last.puts = <<"aggressive">>
    /\ (HyGapNew /\ hy_last.e.cruise_gap = 2) =>
         hy_last.puts = <<"moderate">>
    /\ (HyGapNew /\ hy_last.e.cruise_gap = 3) =>
         hy_last.puts = <<"standard">>
    /\ (HyGapNew /\ hy_last.e.cruise_gap = 4) =>
         hy_last.puts = <<"relaxed">>
    /\ ~HyGapNew => hy_last.puts = <<>>

\* The gap moves from 3 to 4 and relaxed is written.
C15_Witness ==
  /\ HyCalled
  /\ hy_last.before.cruise_gap = 3
  /\ hy_last.e.cruise_gap = 4
  /\ hy_last.puts = <<"relaxed">>

\* C16: in every cycle in which the raw cruise-button code changes to the
\* cancel code, the events contain buttonCancel.
C16_CancelRaised ==
  (HyCalled /\ hy_last.e.cruise_buttons = Buttons.CANCEL
     /\ hy_last.before.cruise_buttons # Buttons.CANCEL) =>
    "buttonCancel" \in hy_last.events

\* C19: canValid is true exactly when the primary, secondary and camera
\* decoders are all valid, and canTimeout is true exactly when at least one
\* of the three reports a bus timeout.
C19_CanHealth ==
  HyCalled =>
    /\ hy_last.canValid <=>
         (hy_last.e.cp.can_valid /\ hy_last.e.cp2.can_valid
            /\ hy_last.e.cp_cam.can_valid)
    /\ hy_last.canTimeout <=>
         (hy_last.e.cp.bus_timeout \/ hy_last.e.cp2.bus_timeout
            \/ hy_last.e.cp_cam.bus_timeout)

\* C21: after every update cycle CP.pcmCruise equals the controller's
\* live-SCC flag, whatever value it had before the cycle.
C21_PcmCruiseSync == HyCalled => pcmCruise = hy_last.e.scc_live

\* A car built with pcmCruise whose SCC is not reporting in the first cycle.
C21_Witness ==
  /\ HyCalled
  /\ hy_last.before.pcmCruise
  /\ ~hy_last.e.scc_live
  /\ ~pcmCruise

HyBelowFloor ==
  hy_last.e.vEgo < minSteerSpeed + 200 /\ minSteerSpeed > 10000
HyAboveFloor == hy_last.e.vEgo > minSteerSpeed + 700

\* C22: the advisory latch becomes set in a cycle where
\* vEgo < minSteerSpeed + 0.2 and minSteerSpeed > 10, becomes clear in a cycle
\* where vEgo > minSteerSpeed + 0.7, and otherwise keeps its value; it is
\* never set when minSteerSpeed <= 10; belowSteerSpeed is raised exactly when
\* the latch is set and the MDPS bus index is 0.
C22_LowSpeedLatch ==
  HyCalled =>
    /\ HyBelowFloor => low_speed_alert
    /\ HyAboveFloor => ~low_speed_alert
    /\ (~HyBelowFloor /\ ~HyAboveFloor) =>
         low_speed_alert = hy_last.before.low_speed_alert
    /\ minSteerSpeed <= 10000 => ~low_speed_alert
    /\ "belowSteerSpeed" \in hy_last.events <=>
         (low_speed_alert /\ hy_last.e.mdps_bus = 0)

\* The latch, set in an earlier cycle, is kept inside the band and
\* belowSteerSpeed is raised.
C22_Witness ==
  /\ HyCalled
  /\ hy_last.before.low_speed_alert
  /\ ~HyBelowFloor /\ ~HyAboveFloor
  /\ low_speed_alert
  /\ hy_last.e.mdps_bus = 0
  /\ "belowSteerSpeed" \in hy_last.events

\* C23: create_common_events raises pcmDisable in every cycle where cruise
\* is not enabled, raises pcmEnable in every cycle where cruise is enabled and
\* was not in the retained state of the previous cycle, and never raises both
\* in one cycle.
C23_PcmEdges ==
  HyCalled =>
    /\ ~hy_last.enabled => "pcmDisable" \in hy_last.common
    /\ (hy_last.enabled /\ ~hy_last.before.out.enabled) =>
         "pcmEnable" \in hy_last.common
    /\ ~({"pcmEnable", "pcmDisable"} \subseteq hy_last.common)

\* The rising edge: cruise becomes enabled and pcmEnable alone is raised.
C23_Witness ==
  /\ HyCalled
  /\ hy_last.enabled
  /\ ~hy_last.before.out.enabled
  /\ "pcmEnable" \in hy_last.common
  /\ "pcmDisable" \notin hy_last.common

HyReleased(types) ==
  \E i \in 1..Len(hy_last.buttonEvents) :
    hy_last.buttonEvents[i].type \in types /\ ~hy_last.buttonEvents[i].pressed

\* C24: when openpilot owns longitudinal control and live SCC is not active,
\* a cycle with a release of the accel or decel button ends with buttonEnable
\* and with neither wrongCarMode nor pcmDisable in the events; when openpilot
\* does not own longitudinal control and cruise is enabled, buttonEnable is
\* raised for a decel release and for no other button event.
C24_ButtonEnable ==
  HyCalled =>
    /\ (hy_last.e.longcontrol /\ ~hy_last.e.scc_live
          /\ HyReleased({"accelCruise", "decelCruise"})) =>
         /\ "buttonEnable" \in hy_last.events
         /\ "wrongCarMode" \notin hy_last.events
         /\ "pcmDisable" \notin hy_last.events
    /\ (~hy_last.e.longcontrol /\ hy_last.enabled) =>
         ("buttonEnable" \in hy_last.events <=> HyReleased({"decelCruise"}))

\* The accel button is released while cruise is neither available nor
\* enabled: the two events the base contract raised are taken out.
C24_Witness ==
  /\ HyCalled
  /\ hy_last.e.longcontrol /\ ~hy_last.e.scc_live
  /\ HyReleased({"accelCruise"})
  /\ {"wrongCarMode", "pcmDisable"} \subseteq hy_last.common
  /\ "buttonEnable" \in hy_last.events
  /\ hy_last.events \cap {"wrongCarMode", "pcmDisable"} = {}

\* C30: no cycle raises both steerTempUnavailableSilent and
\* steerTempUnavailable, and once the silent event has been raised in an
\* uninterrupted episode of the temporary fault, the loud one is not raised
\* in a later cycle of the episode.
C30_SilentLatch ==
  HyCalled =>
    /\ ~({"steerTempUnavailableSilent", "steerTempUnavailable"}
           \subseteq hy_last.common)
    /\ hy_last.before.silent_raised =>
         "steerTempUnavailable" \notin hy_last.common

\* Long after the last press, with the episode's silent event behind it, the
\* fault is still reported as silent.
C30_Witness ==
  /\ HyFaultUnpressed
  /\ hy_last.before.silent_raised
  /\ steering_unpressed >= SILENT_STEER_CYCLES
  /\ "steerTempUnavailableSilent" \in hy_last.common
  /\ "steerTempUnavailable" \notin hy_last.common

----------------------------------------------------------------------------
(* Claims about the stalk blinkers' exclusivity *)

\* C29: the left and right hold counters are never both positive; the two
\* outputs are both true in a cycle only if both stalks are held in it; and
\* a cycle in which one stalk is held and the other is not has the other
\* side's output off.
C29_StalkExclusive ==
  /\ ~(left_blinker_cnt > 0 /\ right_blinker_cnt > 0)
  /\ \A i \in 1..Len(bl_trace) :
       /\ (bl_trace[i].left /\ bl_trace[i].right) =>
            (bl_trace[i].left_stalk /\ bl_trace[i].right_stalk)
       /\ (bl_trace[i].left_stalk /\ ~bl_trace[i].right_stalk) =>
            ~bl_trace[i].right
       /\ (bl_trace[i].right_stalk /\ ~bl_trace[i].left_stalk) =>
            ~bl_trace[i].left

\* The right output, held by its counter after a tap, goes off in the cycle
\* in which the left stalk is engaged.
C29_Witness ==
  \E i \in 2..Len(bl_trace) :
    /\ bl_trace[i - 1].right /\ ~bl_trace[i - 1].right_stalk
    /\ ~bl_trace[i - 1].left_stalk
    /\ bl_trace[i].left_stalk /\ ~bl_trace[i].right_stalk
    /\ bl_trace[i].left /\ ~bl_trace[i].right
    /\ left_blinker_cnt > 0 /\ right_blinker_cnt = 0

----------------------------------------------------------------------------
(* Claims about get_lag_adjusted_curvature *)

LcCalled == lc_result # NoValue
LcMalformed ==
  \/ Len(lc_args.psis) # CONTROL_N
  \/ Len(lc_args.curvatures) # CONTROL_N
  \/ Len(lc_args.curvature_rates) # CONTROL_N
  \/ Len(lc_args.distances) # CONTROL_N

\* C28: if any of the four input trajectories does not have 17 samples, the
\* call completes without error and returns desired curvature 0 and
\* curvature rate 0.
C28_MalformedFallback ==
  (LcCalled /\ LcMalformed) =>
    /\ lc_result.kind = "ok"
    /\ lc_result.curvature = 0
    /\ lc_result.rate = 0

\* ---- Planner ----

PlCalled == pl_last.called

PlConfig ==
  [mode |-> mpc_mode, dynamic_personality |-> dynamic_personality,
   personality |-> personality]

\* C25: with reads enabled, update re-reads the solver mode, the
\* dynamic-personality flag and the personality exactly on the calls whose
\* zero-based index is a multiple of 50, before that cycle's acceleration
\* limits are computed, so a change of the persisted store is reflected in the
\* planner after at most 50 update calls; an absent or unparsable personality
\* value yields standard.
C25_ParamStaleness ==
  /\ due_store # NoValue => PlConfig = ReadParam(due_store)
  /\ (PlCalled /\ pl_last.e.read /\ pl_last.index % PARAM_READ_PERIOD = 0) =>
       pl_last.limits_mode = ReadParam(pl_last.store).mode
  /\ (PlCalled /\ reads_on /\ store_age >= PARAM_READ_PERIOD) =>
       PlConfig = ReadParam(plan_store)
  /\ (/\ due_store # NoValue
      /\ due_store.LongitudinalPersonality \in {"none", "junk"})
       => personality = STANDARD

\* The store was changed to one with an unparsable personality after call 51
\* and read on the call of index 100.
C25_Witness ==
  /\ PlCalled
  /\ pl_last.index = 2 * PARAM_READ_PERIOD
  /\ store_age > 0
  /\ store_age < PARAM_READ_PERIOD
  /\ due_store = plan_store
  /\ plan_store.LongitudinalPersonality = "junk"
  /\ personality = STANDARD
  /\ dynamic_personality

\* C26: in every planner cycle the acceleration bounds handed to the solver
\* contain the desired acceleration handed to it as its initial acceleration
\* (lo <= a_desired <= hi), and lo <= hi whenever the bounds before the
\* widening satisfied lo <= hi.
C26_BoundsContainInitial ==
  (PlCalled /\ mpc_handed # NoValue) =>
    /\ mpc_handed.lo <= mpc_handed.a
    /\ mpc_handed.a <= mpc_handed.hi
    /\ (pl_last.turns[1] <= pl_last.turns[2] => mpc_handed.lo <= mpc_handed.hi)

\* C27: publish publishes the solver's source when it is not plain 'cruise';
\* when the solver reports 'cruise' and the Vision Turn Controller was
\* active, limiting the target, in the last update, the published
\* longitudinalPlanSource is the vision-turn label rather than 'cruise'.
C27_PublishedSource ==
  (published # NoValue) =>
    /\ (published.solver_source # "cruise" =>
          published.longitudinalPlanSource = published.solver_source)
    /\ (/\ published.solver_source = "cruise"
        /\ published.updated
        /\ published.vtc.is_active
        /\ published.vtc.v_target = published.v_cruise
        => published.longitudinalPlanSource # "cruise")

============================================================================
